---- MODULE Spec2Model ----
(***************************************************************************)
(* The remote-control daemon (src/remote-control/daemon.js) and its rate   *)
(* limiter (src/unnamed/part_001, imported as ./rate-limit.js), as a state *)
(* machine.  One action per event-loop callback: a chunk on a control      *)
(* connection, a frame from a peer, a timer, a socket event.  An await     *)
(* splits a handler in two: the part up to the await is one action, the    *)
(* continuation runs with the event that settles the promise.              *)
(***************************************************************************)
EXTENDS Integers, Sequences, FiniteSets, TLC

(* ---- bounds of the model ---- *)
MaxReq == 2
MaxCalls == 2
MaxOver == 1
MaxNotify == 2
MaxAdds == 2
MaxPending == 3

(* ---- program constants ---- *)
WINDOW_MS == 60000
LIMIT == 30
MAX_MSG_BYTES == 8192

(* ---- the finite universe ---- *)
Clients == {"c1", "c2"}
Peers == {"pA", "pB"}
SessionIds == {"s1", "s2", "s3", "s9", "..x", "a/b"}
RequestIds == {"r1", "r2"}
RateKeys == {"local", "pA", "pB"}
Slots == 1..MaxCalls
NoSlot == 0
NoPeer == "none"
NoConn == "none"
Transports == {"control", "inbound", "outbound"}

VARIABLES
  localSessions,   \* daemon.js:32  keys of the localSessions map
  remotePeers,     \* daemon.js:33  host -> peer entry
  peerOrder,       \* daemon.js:33  insertion order of the remotePeers map
  subscribers,     \* daemon.js:34  control connections that subscribed
  pendingRelays,   \* daemon.js:35  requestId -> the promise registered under it
  calls,           \* the promises a handler is awaiting, one per slot
  rateState,       \* part_001:5    peerKey -> {count, window}
  now,             \* Date.now()
  connOpen,        \* control connections that are still open
  nreq,            \* request lines received per control connection
  out,             \* frames written to each control connection
  peerOut,         \* frames written to each peer socket
  peerIn,          \* frames a peer has written that this daemon has not read yet
  auditLog,        \* audit-log.ts: lines appended to audit.log
  endpointUp,      \* session endpoints that accept connections
  delivered,       \* command frames written to session endpoints
  admitted,        \* history: relay requests admitted by checkRateLimit, per key and instant
  rpcSeen,         \* history: rpc frames received from each peer, per instant
  sockFile,        \* <sessionId>.sock exists in the control directory
  debounce,        \* fs.watch callbacks inside their 50 ms wait, per session
  probing,         \* verifySocketAlive calls whose connect is still open, per session
  lastProbe,       \* history: result of the most recent finished probe, per session
  removedSince,    \* history: a directory-remove event fired after that probe
  emitted,         \* history: session_added / session_removed emitted per session
  buffer,          \* daemon.js:861 the unfinished line a control connection holds, in bytes
  oversized,       \* history: lines over MAX_MSG_BYTES that were parsed and dispatched
  config,          \* daemon.js:36 config.peers, as the hosts its strings resolve to
  autoShutdownTimer,    \* daemon.js:38 the pending timer of resetAutoShutdown
  autoShutdownTimeout,  \* daemon.js:46 config.autoShutdownTimeout, in seconds
  exited,          \* the process has left through process.exit of the auto-shutdown
  state,           \* part_003:2076-2084 SocketState of the session endpoint
  sockets,         \* connections accepted by the session endpoint
  session,         \* the session behind the endpoint: name, branch, idle, turn index
  aliasLinks,      \* names of the <name>.alias links that point to the endpoint's socket
  syncRuns,        \* part_003:2179-2192 syncAlias calls between their awaits
  peerStr,         \* daemon.js:1036-1037 a peer string of the configuration, as characters
  parsed,          \* daemon.js:1037 what parsePeerAddress returned for it
  procs,           \* the daemon processes: where main is, which servers listen, exit code
  disk,            \* which process made daemon.sock and daemon.pid, "none" when absent
  tcpPort,         \* which process is bound to config.port, "none" when it is free
  immediates,      \* daemon.js:843 callbacks queued with setImmediate
  socketFile,      \* the socket file of the session endpoint exists
  stopRun,         \* part_003:2638-2654 where stopControlServer is
  stored           \* daemon.js:595-598 the address an add_peer connected to, and config.port

ctlVars == <<subscribers, pendingRelays, calls, rateState, connOpen, nreq, out,
             auditLog, delivered, admitted, rpcSeen>>
peerVars == <<remotePeers, peerOrder, peerIn>>
watchVars == <<sockFile, debounce, probing, lastProbe, removedSince, emitted>>

\* what every handler but the clock and the chunk reader leaves alone
shutVars == <<socketFile, stopRun>>

sessionVars == <<state, sockets, session, aliasLinks, syncRuns, shutVars>>

parseVars == <<peerStr, parsed, stored>>

procVars == <<procs, disk, tcpPort>>

\* what a request on the control socket leaves alone as well
quietVars == <<config, autoShutdownTimeout, exited, sessionVars, parseVars, procVars>>

moreVars == <<quietVars, immediates>>

restVars == <<now, buffer, oversized, moreVars, autoShutdownTimer>>

vars == <<localSessions, remotePeers, peerOrder, subscribers, pendingRelays, calls,
          rateState, now, connOpen, nreq, out, peerOut, peerIn, auditLog, endpointUp,
          delivered, admitted, rpcSeen, sockFile, debounce, probing, lastProbe,
          removedSince, emitted, buffer, oversized, config, autoShutdownTimer,
          autoShutdownTimeout, exited, state, sockets, session, aliasLinks, syncRuns,
          peerStr, parsed, procs, disk, tcpPort, immediates, socketFile, stopRun, stored>>

(* ---- the auto-shutdown timer (daemon.js:43-61) ---- *)

DEFAULT_AUTO_SHUTDOWN_TIMEOUT == 300

\* the largest delay a timer of the runtime keeps: 2^31 - 1 ms
TIMEOUT_MAX == 2147483647

NoTimer == [set |-> FALSE, at |-> 0, delay |-> 0]

\* setTimeout(callback, seconds * 1000): a delay in ms that does not fit a
\* 32-bit signed integer is replaced by 1 ms (the product is compared through
\* the quotient, which is the same test for whole seconds)
setTimeoutDelay(seconds) ==
  IF seconds > TIMEOUT_MAX \div 1000 THEN 1 ELSE seconds * 1000

\* daemon.js:43-49 the timer resetAutoShutdown leaves behind when called at
\* the time t: none for a timeout of zero or less
ArmedTimer(t) ==
  IF autoShutdownTimeout <= 0 THEN NoTimer
  ELSE [set |-> TRUE, at |-> t, delay |-> setTimeoutDelay(autoShutdownTimeout)]

resetAutoShutdown == autoShutdownTimer' = ArmedTimer(now)

(* ---- instants at which the model lets time stand ---- *)
Instants == {0, WINDOW_MS - 1, WINDOW_MS, 2 * WINDOW_MS - 1}

RECURSIVE SumOver(_, _)
SumOver(f, S) ==
  IF S = {} THEN 0
  ELSE LET x == CHOOSE y \in S : TRUE IN f[x] + SumOver(f, S \ {x})

(* ======================= rate limiter (part_001) ======================= *)

NoEntry == [count |-> 0, window |-> -1]

currentWindow(t) == t \div WINDOW_MS

\* part_001:11  a missing entry, or one of an earlier window, is replaced
RateFresh(rs, peerKey, t) ==
  rs[peerKey] = NoEntry \/ rs[peerKey].window # currentWindow(t)

RateBelowOffByOne(entry) == entry.count <= LIMIT

\* part_001:15
RateBelow(entry) == entry.count < LIMIT

\* the value checkRateLimit returns
checkRateLimit(rs, peerKey, t) ==
  RateFresh(rs, peerKey, t) \/ RateBelow(rs[peerKey])

\* the state checkRateLimit leaves behind
RateAfter(rs, peerKey, t) ==
  IF RateFresh(rs, peerKey, t)
    THEN [rs EXCEPT ![peerKey] = [count |-> 1, window |-> currentWindow(t)]]
  ELSE IF RateBelow(rs[peerKey])
    THEN [rs EXCEPT ![peerKey].count = @ + 1]
  ELSE rs

(* ===================== frames and small helpers ======================== *)

\* the characters of a session id
Spelling(id) ==
  CASE id = "..x" -> <<".", ".", "x">>
    [] id = "" -> <<>>
    [] id = " n1 " -> <<" ", "s", "n", " ">>
    [] id = "a/b" -> <<"a", "/", "b">>
    [] OTHER -> <<"s", "n">>

\* shared.js:309-319 isSafeSessionId
isSafeSessionId(id) ==
  LET w == Spelling(id) IN
  /\ Len(w) > 0
  /\ \A i \in DOMAIN w : w[i] # "/" /\ w[i] # "\\"
  /\ \A i \in 1..(Len(w) - 1) : ~(w[i] = "." /\ w[i + 1] = ".")

\* patch-bash-tool.ts:216-221 checkMaxMsgSize, on the byte length of its argument
checkMaxMsgSize(bytes) == bytes <= MAX_MSG_BYTES

Min(S) == CHOOSE x \in S : \A y \in S : x <= y

\* daemon.js:567-573 sendDaemonResponse builds this frame; `line` is the
\* serial number of the request line it answers (history, not on the wire)
Resp(n, cmd, success, body, requestId) ==
  [type |-> "response", line |-> n, command |-> cmd, success |-> success,
   body |-> body, requestId |-> requestId]

\* daemon.js:569-572 socket.write inside try/catch: nothing reaches a closed socket
Send(o, c, frame) ==
  IF c \in Clients /\ connOpen[c] THEN [o EXCEPT ![c] = Append(@, frame)] ELSE o

\* the event written to one subscriber only, the others skipped
PushToOne(o, S, frame) ==
  IF S = {} THEN o ELSE Send(o, CHOOSE x \in S : TRUE, frame)

\* daemon.js:112-121 pushEvent writes the line to every subscriber
RECURSIVE PushTo(_, _, _)
PushTo(o, S, frame) ==
  IF S = {} THEN o
  ELSE LET c == CHOOSE x \in S : TRUE IN PushTo(Send(o, c, frame), S \ {c}, frame)

Event(name, body) ==
  [type |-> "event", line |-> 0, command |-> name, success |-> TRUE,
   body |-> body, requestId |-> "-"]

\* audit-log.ts:16-21 logAudit appends one line
AuditLine(peer, action, target, result, error) ==
  [peer |-> peer, action |-> action, target |-> target, result |-> result,
   error |-> error]

FreeCall ==
  [kind |-> "free", conn |-> NoConn, line |-> 0, requestId |-> "r1",
   target |-> "s1", peer |-> NoPeer, wrote |-> FALSE]

FreeSlots == {h \in Slots : calls[h].kind = "free"}

\* daemon.js:750-761 the scan of remotePeers stops at the first entry (in
\* insertion order) whose session map holds the target
ScanHits(target) ==
  {i \in 1..Len(peerOrder) : target \in remotePeers[peerOrder[i]].sessions}

ScanFirst(target) == peerOrder[Min(ScanHits(target))]

targetPeer(target) ==
  IF ScanHits(target) # {} /\ remotePeers[ScanFirst(target)].connected
    THEN ScanFirst(target) ELSE NoPeer

sessionFoundButDisconnected(target) ==
  ScanHits(target) # {} /\ ~remotePeers[ScanFirst(target)].connected

\* peer.socket.write(line): the frame is on the link when the socket is there
PeerWrite(po, p, frame) ==
  IF p \in Peers /\ remotePeers[p].socket THEN [po EXCEPT ![p] = Append(@, frame)]
  ELSE po

RpcFrame(ln, c, n) ==
  [type |-> "rpc", requestId |-> ln.requestId, target |-> ln.target,
   success |-> TRUE, ff |-> ln.ff, conn |-> c, line |-> n]

RpcResponseFrame(requestId, success) ==
  [type |-> "rpc_response", requestId |-> requestId, target |-> "-",
   success |-> success, ff |-> FALSE, conn |-> NoConn, line |-> 0]

\* history of admissions, for the rate-limit properties
Admit(a, key, t) == [a EXCEPT ![key][t] = @ + 1]

(* ============ control socket: handleDaemonCommand (daemon.js) ========== *)

NewCall(kind, c, n, requestId, target, p) ==
  [kind |-> kind, conn |-> c, line |-> n, requestId |-> requestId,
   target |-> target, peer |-> p, wrote |-> FALSE]

RelayEffects(rs, ad, o, au, cs, pr, po) ==
  /\ rateState' = rs
  /\ admitted' = ad
  /\ out' = o
  /\ auditLog' = au
  /\ calls' = cs
  /\ pendingRelays' = pr
  /\ peerOut' = po

\* daemon.js:889-892 the catch on the handler's promise: a handler that threw is
\* answered with String(err)
ThrowResp(n, cmd) == Resp(n, cmd, FALSE, "TypeError", "-")

QueuedResp(n, requestId) == Resp(n, "relay", TRUE, "queued", requestId)

\* daemon.js:731-749 the target is in the local-session table
RelayLocal(c, n, ln, rs, ad) ==
  LET h == Min(FreeSlots) IN
  IF ln.ff
    THEN IF ln.cmd = "none"
           \* 734 acknowledges, 735 getRelayTimeout(undefined) throws, 889 answers again
           THEN RelayEffects(rs, ad,
                  Send(Send(out, c, QueuedResp(n, ln.requestId)), c, ThrowResp(n, "relay")),
                  auditLog, calls, pendingRelays, peerOut)
           ELSE /\ FreeSlots # {}
                /\ RelayEffects(rs, ad, Send(out, c, QueuedResp(n, ln.requestId)), auditLog,
                     [calls EXCEPT ![h] = NewCall("localff", c, n, ln.requestId, ln.target, NoPeer)],
                     pendingRelays, peerOut)
    ELSE IF ln.cmd = "none"
           \* 740 getRelayTimeout(undefined) throws before anything is written
           THEN RelayEffects(rs, ad, Send(out, c, ThrowResp(n, "relay")),
                  auditLog, calls, pendingRelays, peerOut)
           ELSE /\ FreeSlots # {}
                /\ RelayEffects(rs, ad, out, auditLog,
                     [calls EXCEPT ![h] = NewCall("local", c, n, ln.requestId, ln.target, NoPeer)],
                     pendingRelays, peerOut)

\* daemon.js:750-821 the target is looked up among the peers
RelayRemote(c, n, ln, rs, ad) ==
  LET h == Min(FreeSlots)
      tp == targetPeer(ln.target)
  IN
  IF tp = NoPeer \/ ~remotePeers[tp].socket
    THEN RelayEffects(rs, ad,
           Send(out, c, Resp(n, "relay", FALSE,
                  IF sessionFoundButDisconnected(ln.target)
                    THEN "is on a disconnected peer" ELSE "not found", "-")),
           auditLog, calls, pendingRelays, peerOut)
  ELSE IF ln.ff
    THEN RelayEffects(rs, ad, Send(out, c, QueuedResp(n, ln.requestId)), auditLog,
           calls, pendingRelays, PeerWrite(peerOut, tp, RpcFrame(ln, c, n)))
  ELSE IF ln.cmd = "none"
    \* 790 getRelayTimeout(undefined) throws
    THEN RelayEffects(rs, ad, Send(out, c, ThrowResp(n, "relay")),
           auditLog, calls, pendingRelays, peerOut)
  ELSE /\ FreeSlots # {}
       /\ RelayEffects(rs, ad, out, auditLog,
            [calls EXCEPT ![h] = NewCall("remote", c, n, ln.requestId, ln.target, tp)],
            [pendingRelays EXCEPT ![ln.requestId] = h],
            PeerWrite(peerOut, tp, RpcFrame(ln, c, n)))

\* the same case with the peers scanned before the local table
HandleRelayPeersFirst(c, n, ln) ==
  LET ok == checkRateLimit(rateState, "local", now)
      rs == RateAfter(rateState, "local", now)
      ad == IF ok THEN Admit(admitted, "local", now) ELSE admitted
  IN
  IF ~ok
    THEN RelayEffects(rs, ad,
           Send(out, c, Resp(n, "relay", FALSE, "Rate limit exceeded", "-")),
           Append(auditLog, AuditLine("local", "relay", "-", "fail", "Rate limit exceeded")),
           calls, pendingRelays, peerOut)
  ELSE IF targetPeer(ln.target) = NoPeer /\ ln.target \in localSessions
    THEN RelayLocal(c, n, ln, rs, ad)
  ELSE RelayRemote(c, n, ln, rs, ad)

\* daemon.js:716-822 case "relay", up to its first await
HandleRelay(c, n, ln) ==
  LET ok == checkRateLimit(rateState, "local", now)
      rs == RateAfter(rateState, "local", now)
      ad == IF ok THEN Admit(admitted, "local", now) ELSE admitted
  IN
  IF ~ok
    THEN RelayEffects(rs, ad,
           Send(out, c, Resp(n, "relay", FALSE, "Rate limit exceeded", "-")),
           Append(auditLog, AuditLine("local", "relay", "-", "fail", "Rate limit exceeded")),
           calls, pendingRelays, peerOut)
  ELSE IF ln.target \in localSessions
    THEN RelayLocal(c, n, ln, rs, ad)
  ELSE RelayRemote(c, n, ln, rs, ad)

OnlyOut(o) ==
  /\ out' = o
  /\ UNCHANGED <<rateState, admitted, auditLog, calls, pendingRelays, peerOut>>

\* daemon.js:674-692 the list of list_sessions: every local session under this
\* host, then every session of every connected peer under the peer's host
listSessions ==
  {[sessionId |-> s, host |-> "self", isRemote |-> FALSE] : s \in localSessions}
  \cup UNION {{[sessionId |-> s, host |-> remotePeers[p].host, isRemote |-> TRUE] :
                 s \in remotePeers[p].sessions} :
               p \in {q \in Peers : remotePeers[q].present /\ remotePeers[q].connected}}

\* daemon.js:863-898 one complete line arrives on a control connection:
\* parse, then handleDaemonCommand (574-853) up to its first await
DaemonData(c, ln) ==
  \* 575 handleDaemonCommand starts with resetAutoShutdown; a line that is not
  \* JSON never gets there
  /\ autoShutdownTimer' = IF ln.type = "nonjson" THEN autoShutdownTimer ELSE ArmedTimer(now)
  /\ connOpen[c]
  /\ nreq' = [nreq EXCEPT ![c] = @ + 1]
  /\ UNCHANGED <<localSessions, peerVars, now, buffer, oversized, quietVars, connOpen, endpointUp, delivered,
                 rpcSeen, watchVars>>
  \* 840-847 the shutdown is left to a setImmediate callback
  /\ immediates' = IF ln.type = "/kill-daemon" THEN immediates \cup {"kill"} ELSE immediates
  /\ LET n == nreq[c] + 1 IN
     CASE ln.type = "nonjson" ->     \* 893-896 JSON.parse throws
            /\ OnlyOut(Send(out, c, Resp(n, "unknown", FALSE, "Invalid JSON", "-")))
            /\ UNCHANGED subscribers
       [] ln.type = "null" ->
            \* JSON null: 576 req.type throws inside the async handler, and the
            \* catch at 889-892 throws again on req.type: nothing is written
            /\ OnlyOut(out)
            /\ UNCHANGED subscribers
       [] ln.type = "status" ->      \* 577-593
            /\ OnlyOut(Send(out, c, Resp(n, "status", TRUE, "status", "-")))
            /\ UNCHANGED subscribers
       [] ln.type = "list_sessions" ->   \* 673-695
            /\ OnlyOut(Send(out, c, Resp(n, "list_sessions", TRUE, listSessions, "-")))
            /\ UNCHANGED subscribers
       [] ln.type = "subscribe" ->   \* 823-835
            /\ OnlyOut(Send(out, c, Resp(n, "subscribe", TRUE, "subscribed", "-")))
            /\ subscribers' = subscribers \cup {c}
       [] ln.type = "relay" ->
            /\ HandleRelay(c, n, ln)
            /\ UNCHANGED subscribers
       [] ln.type = "/start-daemon" ->   \* 836-839
            /\ OnlyOut(Send(out, c, Resp(n, "/start-daemon", TRUE, "Daemon already running", "-")))
            /\ UNCHANGED subscribers
       [] ln.type = "/kill-daemon" ->    \* 840-847
            /\ OnlyOut(Send(out, c, Resp(n, "/kill-daemon", TRUE, "Shutting down", "-")))
            /\ UNCHANGED subscribers
       [] OTHER ->                   \* 849-851
            /\ OnlyOut(Send(out, c, Resp(n, ln.type, FALSE, "Unknown command", "-")))
            /\ UNCHANGED subscribers

(* ============ continuations of the awaited relay promises ============== *)

\* daemon.js:800-809 the await at 800 returns: the inner response is proxied
\* and one audit line is appended
RemoteResolved(h, innerOk) ==
  /\ out' = Send(out, calls[h].conn,
                 Resp(calls[h].line, "relay", TRUE,
                      IF innerOk THEN "inner:ok" ELSE "inner:fail", calls[h].requestId))
  /\ auditLog' = Append(auditLog,
                   AuditLine("local", "get_message", calls[h].target,
                             IF innerOk THEN "ok" ELSE "fail",
                             IF innerOk THEN "-" ELSE "inner"))
  /\ calls' = [calls EXCEPT ![h] = FreeCall]

\* the same handler with the response written by the frame handler itself and
\* the relay's promise and timer left as they were
RpcResponseKeepsWaiting(p, msg) ==
  LET h == pendingRelays[msg.requestId] IN
  IF h = NoSlot
    THEN UNCHANGED <<pendingRelays, out, auditLog, calls, peerOut, rpcSeen, delivered,
                     remotePeers>>
    ELSE /\ out' = Send(out, calls[h].conn,
                        Resp(calls[h].line, "relay", TRUE, "inner:ok", calls[h].requestId))
         /\ pendingRelays' = [pendingRelays EXCEPT ![msg.requestId] = NoSlot]
         /\ UNCHANGED <<auditLog, calls, peerOut, rpcSeen, delivered, remotePeers>>

\* the same handler settling whichever relay is pending, whatever requestId the
\* frame carries
RpcResponseIgnoresId(p, msg) ==
  LET ids == {r \in RequestIds : pendingRelays[r] # NoSlot}
      r0 == CHOOSE r \in ids : TRUE
  IN
  IF ids = {}
    THEN UNCHANGED <<pendingRelays, out, auditLog, calls, peerOut, rpcSeen, delivered,
                     remotePeers>>
    ELSE /\ pendingRelays' = [pendingRelays EXCEPT ![r0] = NoSlot]
         /\ RemoteResolved(pendingRelays[r0], msg.success)
         /\ UNCHANGED <<peerOut, rpcSeen, delivered, remotePeers>>

\* daemon.js:361-369 case "rpc_response": a pending entry is removed and its
\* promise resolved (a settled promise ignores it); anything else is dropped
OnRpcResponse(p, msg) ==
  LET h == pendingRelays[msg.requestId] IN
  IF h = NoSlot
    THEN UNCHANGED <<pendingRelays, out, auditLog, calls, peerOut, rpcSeen, delivered,
                     remotePeers>>
    ELSE /\ pendingRelays' = [pendingRelays EXCEPT ![msg.requestId] = NoSlot]
         /\ IF calls[h].kind = "remote"
              THEN RemoteResolved(h, msg.success)
              ELSE UNCHANGED <<out, auditLog, calls>>
         /\ UNCHANGED <<peerOut, rpcSeen, delivered, remotePeers>>

\* daemon.js:307-360 case "rpc": a relay request of a peer daemon; no call of
\* checkRateLimit on this path
OnRpc(p, msg) ==
  LET h == Min(FreeSlots) IN
  /\ rpcSeen' = [rpcSeen EXCEPT ![p][now] = @ + 1]
  /\ UNCHANGED remotePeers
  /\ IF msg.target \notin localSessions
       THEN /\ peerOut' = PeerWrite(peerOut, p, RpcResponseFrame(msg.requestId, FALSE))
            /\ UNCHANGED <<out, auditLog, calls, pendingRelays, delivered>>
       ELSE /\ FreeSlots # {}
            /\ calls' = [calls EXCEPT ![h] =
                           NewCall("peer", NoConn, 0, msg.requestId, msg.target, p)]
            /\ UNCHANGED <<out, auditLog, peerOut, pendingRelays, delivered>>

\* daemon.js:255-263 buildOurHello
buildOurHello ==
  [type |-> "hello", host |-> "self", sessions |-> localSessions]

\* daemon.js:268-283 case "hello", on the table rp and the peer writes po the
\* data handler has prepared: the session map of the peer is replaced, and
\* peer_connected is pushed unless the entry is already reported connected
OnHello(rp, po, p, msg) ==
  LET say == rp[p].status # "connected" /\ ~rp[p].gaveUp IN
  /\ remotePeers' = [rp EXCEPT ![p].sessions = msg.sessions,
                               ![p].status = IF say THEN "connected" ELSE @]
  /\ out' = IF say THEN PushTo(out, subscribers, Event("peer_connected", rp[p].host))
                   ELSE out
  /\ peerOut' = po
  /\ UNCHANGED <<auditLog, calls, pendingRelays, rpcSeen, delivered>>

\* daemon.js:287-296 case "session_added": no check of the id, no look at the
\* local table or at other peers
OnSessionAdded(p, msg) ==
  /\ remotePeers' = [remotePeers EXCEPT ![p].sessions = @ \cup {msg.target}]
  /\ out' = PushTo(out, subscribers, Event("session_added", msg.target))
  /\ UNCHANGED <<auditLog, calls, pendingRelays, peerOut, rpcSeen, delivered>>

\* daemon.js:297-306 case "session_removed"
OnSessionRemoved(p, msg) ==
  /\ remotePeers' = [remotePeers EXCEPT ![p].sessions = @ \ {msg.target}]
  /\ out' = PushTo(out, subscribers, Event("session_removed", msg.target))
  /\ UNCHANGED <<auditLog, calls, pendingRelays, peerOut, rpcSeen, delivered>>

\* daemon.js:264-371 handlePeerMessage
handlePeerMessage(p, msg) ==
  CASE msg.type = "rpc_response" -> OnRpcResponse(p, msg)
    [] msg.type = "rpc" -> OnRpc(p, msg)
    [] msg.type = "hello" -> OnHello(remotePeers, peerOut, p, msg)
    [] msg.type = "session_added" -> OnSessionAdded(p, msg)
    [] msg.type = "session_removed" -> OnSessionRemoved(p, msg)
    [] OTHER -> UNCHANGED <<out, auditLog, calls, pendingRelays, peerOut, rpcSeen,
                            delivered, remotePeers>>

\* the daemon at the other end of a peer socket writes a frame
PeerSends(p, msg) ==
  /\ remotePeers[p].socket
  /\ ~remotePeers[p].destroyed
  /\ peerIn[p] = <<>>
  /\ peerIn' = [peerIn EXCEPT ![p] = <<msg>>]
  /\ UNCHANGED <<localSessions, remotePeers, peerOrder, ctlVars, restVars, peerOut,
                 endpointUp, watchVars>>

\* a peer object that does not exist
AbsentPeer ==
  [host |-> "-", present |-> FALSE, connected |-> FALSE, socket |-> FALSE,
   sessions |-> {}, inbound |-> FALSE, removed |-> FALSE, gaveUp |-> FALSE,
   status |-> "none", links |-> 0, hello |-> FALSE, destroyed |-> FALSE]

\* remotePeers.get(host): the objects the map holds under this key
MapGet(rp, host) == {q \in Peers : rp[q].present /\ rp[q].host = host}

\* daemon.js:952-985 the first frame on an accepted connection
InboundFirst(p, msg) ==
  IF msg.type # "hello"
    \* 955-958 socket.destroy(); no peer object was made, the close handler
    \* (997-1012) finds peer = null
    THEN /\ remotePeers' = [remotePeers EXCEPT ![p] = AbsentPeer]
         /\ UNCHANGED <<peerOrder, out, auditLog, calls, pendingRelays, peerOut,
                        rpcSeen, delivered>>
    ELSE LET old == MapGet(remotePeers, msg.host) \ {p}
             \* 962-966 an entry with a socket is marked removed and its socket destroyed
             rp1 == [q \in Peers |->
                       IF q \in old
                         THEN [remotePeers[q] EXCEPT !.present = FALSE,
                                                     !.removed = @ \/ remotePeers[q].socket,
                                                     !.destroyed = @ \/ remotePeers[q].socket]
                         ELSE remotePeers[q]]
             \* 967-979 a new object takes the key (Map.set keeps the key's place)
             rp2 == [rp1 EXCEPT ![p] =
                       [host |-> msg.host, present |-> TRUE, connected |-> TRUE,
                        socket |-> TRUE, sessions |-> {}, inbound |-> TRUE,
                        removed |-> FALSE, gaveUp |-> FALSE, status |-> "none",
                        links |-> 1, hello |-> TRUE, destroyed |-> FALSE]]
         IN
         /\ peerOrder' = IF old = {} THEN Append(peerOrder, p)
                         ELSE [i \in DOMAIN peerOrder |->
                                 IF peerOrder[i] \in old THEN p ELSE peerOrder[i]]
         \* 980-981 handlePeerMessage, then our hello is written
         /\ OnHello(rp2, [peerOut EXCEPT ![p] = Append(@, buildOurHello)], p, msg)

\* daemon.js:379-403 a frame on a socket set up by setupPeerSocket: a hello
\* marks the peer connected; every frame goes to handlePeerMessage
OutboundFrame(p, msg) ==
  /\ UNCHANGED peerOrder
  /\ IF msg.type = "hello" /\ ~remotePeers[p].connected
       THEN IF ~remotePeers[p].hello
              THEN OnHello([remotePeers EXCEPT ![p].connected = TRUE, ![p].hello = TRUE],
                           peerOut, p, msg)
              ELSE /\ remotePeers' = [remotePeers EXCEPT ![p].connected = TRUE]
                   /\ UNCHANGED <<out, auditLog, calls, pendingRelays, peerOut, rpcSeen,
                                  delivered>>
       ELSE handlePeerMessage(p, msg)

\* the byte length of a frame's line; the frames of the model are short
\* unless they say otherwise
FrameBytes(msg) == IF "bytes" \in DOMAIN msg THEN msg.bytes ELSE 64

\* daemon.js:929-936 / 944-951 an accepted connection checks the chunk and the
\* line: the error frame is written and the socket destroyed
InboundTooBig(p) ==
  /\ remotePeers' = [remotePeers EXCEPT ![p].destroyed = TRUE]
  /\ peerOut' = [peerOut EXCEPT ![p] = Append(@, [type |-> "error"])]
  /\ UNCHANGED <<peerOrder, out, auditLog, calls, pendingRelays, rpcSeen, delivered,
                 oversized>>

\* daemon.js:379-403 / 928-993 the data handler of a peer socket reads one frame
\* (a chunk that holds this one line and its newline)
PeerData(p) ==
  /\ remotePeers[p].socket
  /\ ~remotePeers[p].destroyed
  /\ peerIn[p] # <<>>
  \* 266 handlePeerMessage starts with resetAutoShutdown; 983 the accepted hello
  /\ LET first == Head(peerIn[p])
         handled ==
           IF remotePeers[p].inbound
             THEN checkMaxMsgSize(FrameBytes(first) + 1)
                  /\ (remotePeers[p].hello \/ first.type = "hello")
             ELSE ~(first.type = "hello" /\ ~remotePeers[p].connected /\ remotePeers[p].hello)
     IN autoShutdownTimer' = IF handled THEN ArmedTimer(now) ELSE autoShutdownTimer
  /\ LET msg == Head(peerIn[p]) IN
     IF remotePeers[p].inbound
       THEN IF ~checkMaxMsgSize(FrameBytes(msg) + 1)
              THEN InboundTooBig(p)
              ELSE /\ UNCHANGED oversized
                   /\ IF ~remotePeers[p].hello
                        THEN InboundFirst(p, msg)
                        ELSE handlePeerMessage(p, msg) /\ UNCHANGED peerOrder
       ELSE /\ oversized' = [oversized EXCEPT !["outbound"] =
                               IF checkMaxMsgSize(FrameBytes(msg)) THEN @ ELSE @ + 1]
            /\ OutboundFrame(p, msg)
  /\ peerIn' = [peerIn EXCEPT ![p] =
                  IF remotePeers'[p].socket /\ ~remotePeers'[p].destroyed
                    THEN Tail(@) ELSE <<>>]
  /\ UNCHANGED <<localSessions, subscribers, rateState, now, buffer,
                 connOpen, nreq, endpointUp, admitted, watchVars, moreVars>>

\* the relay timer cancelled when the socket of the owning peer closes
RelayTimeoutUnlessPeerGone(h) ==
  /\ calls[h].kind = "remote"
  /\ remotePeers[calls[h].peer].socket
  /\ pendingRelays' = [pendingRelays EXCEPT ![calls[h].requestId] = NoSlot]
  /\ out' = Send(out, calls[h].conn, Resp(calls[h].line, "relay", FALSE, "timeout", "-"))
  /\ auditLog' = Append(auditLog,
                   AuditLine("local", "get_message", calls[h].target, "fail", "timeout"))
  /\ calls' = [calls EXCEPT ![h] = FreeCall]
  /\ UNCHANGED <<localSessions, peerVars, subscribers, rateState, restVars, connOpen, nreq,
                 peerOut, endpointUp, delivered, admitted, rpcSeen, watchVars>>

\* daemon.js:792-795 the relay timer fires: the entry under this requestId is
\* deleted, the promise rejects, 810-819 answer and audit
RelayTimeout(h) ==
  /\ calls[h].kind = "remote"
  /\ pendingRelays' = [pendingRelays EXCEPT ![calls[h].requestId] = NoSlot]
  /\ out' = Send(out, calls[h].conn, Resp(calls[h].line, "relay", FALSE, "timeout", "-"))
  /\ auditLog' = Append(auditLog,
                   AuditLine("local", "get_message", calls[h].target, "fail", "timeout"))
  /\ calls' = [calls EXCEPT ![h] = FreeCall]
  /\ UNCHANGED <<localSessions, peerVars, subscribers, rateState, restVars, connOpen, nreq,
                 peerOut, endpointUp, delivered, admitted, rpcSeen, watchVars>>

(* ============ relayToLocalSocket (daemon.js:515-566) =================== *)

IsLocalCall(h) == calls[h].kind \in {"local", "localff", "peer"}

\* what the caller does when the promise of relayToLocalSocket settles:
\*   742-746 the control handler answers its client,
\*   736-738 the fire-and-forget caller only logs,
\*   329-358 the rpc handler writes an rpc_response to the peer
LocalSettled(h, resolved, body) ==
  /\ calls' = [calls EXCEPT ![h] = FreeCall]
  /\ out' = IF calls[h].kind = "local"
              THEN Send(out, calls[h].conn,
                        Resp(calls[h].line, "relay", resolved, body,
                             IF resolved THEN calls[h].requestId ELSE "-"))
              ELSE out
  /\ peerOut' = IF calls[h].kind = "peer"
                  THEN PeerWrite(peerOut, calls[h].peer,
                                 RpcResponseFrame(calls[h].requestId, body = "inner:ok"))
                  ELSE peerOut
  /\ UNCHANGED <<localSessions, peerVars, subscribers, pendingRelays, rateState, restVars,
                 connOpen, nreq, auditLog, endpointUp, admitted, rpcSeen, watchVars>>

\* 528-530 connect: the command frame is written to the endpoint
LocalConnect(h) ==
  /\ IsLocalCall(h)
  /\ ~calls[h].wrote
  /\ endpointUp[calls[h].target]
  /\ calls' = [calls EXCEPT ![h].wrote = TRUE]
  /\ delivered' = [delivered EXCEPT ![calls[h].target] = @ + 1]
  /\ UNCHANGED <<localSessions, peerVars, subscribers, pendingRelays, rateState, restVars,
                 connOpen, nreq, out, peerOut, auditLog, endpointUp, admitted, rpcSeen,
                 watchVars>>

\* 531-550 the first line of the endpoint's answer: resolve, or reject on bad JSON
LocalData(h, res) ==
  /\ IsLocalCall(h)
  /\ calls[h].wrote
  /\ endpointUp[calls[h].target]
  /\ LocalSettled(h, res # "badjson", res)
  /\ UNCHANGED delivered

\* 551-557 the socket errors (no listener behind the path, or a reset)
LocalError(h) ==
  /\ IsLocalCall(h)
  /\ ~endpointUp[calls[h].target]
  /\ LocalSettled(h, FALSE, "socket error")
  /\ UNCHANGED delivered

\* 558-564 the socket closes before a line arrived
LocalClose(h) ==
  /\ IsLocalCall(h)
  /\ calls[h].wrote
  /\ ~endpointUp[calls[h].target]
  /\ LocalSettled(h, FALSE, "Socket closed before response")
  /\ UNCHANGED delivered

\* 519-525 the timer of relayToLocalSocket fires
LocalTimeout(h) ==
  /\ IsLocalCall(h)
  /\ LocalSettled(h, FALSE, "timeout")
  /\ UNCHANGED delivered

(* ============ the environment of the daemon ============================ *)

\* the client end of a control connection goes away (899-905)
ClientClose(c) ==
  /\ connOpen[c]
  /\ connOpen' = [connOpen EXCEPT ![c] = FALSE]
  /\ subscribers' = subscribers \ {c}
  /\ UNCHANGED <<localSessions, peerVars, pendingRelays, calls, rateState, restVars, nreq, out,
                 peerOut, auditLog, endpointUp, delivered, admitted, rpcSeen, watchVars>>

\* the agent process behind an endpoint dies; its socket file stays on disk
EndpointCrash(s) ==
  /\ endpointUp[s]
  /\ endpointUp' = [endpointUp EXCEPT ![s] = FALSE]
  /\ UNCHANGED <<localSessions, peerVars, ctlVars, restVars, peerOut, watchVars>>

\* Date.now() moves on
Advance(t) ==
  /\ t \in Instants
  /\ t > now
  /\ now' = t
  /\ UNCHANGED <<localSessions, peerVars, ctlVars, peerOut, endpointUp, watchVars,
                 buffer, oversized, moreVars, autoShutdownTimer>>

(* ============ peer sockets going away (daemon.js) ====================== *)

\* one session_removed per session of the peer's map, to every subscriber
RECURSIVE PushSessionsRemoved(_, _)
PushSessionsRemoved(o, S) ==
  IF S = {} THEN o
  ELSE LET s == CHOOSE x \in S : TRUE IN
       PushSessionsRemoved(PushTo(o, subscribers, Event("session_removed", s)), S \ {s})

\* daemon.js:407-430 close handler of a socket set up by setupPeerSocket
\* (outbound), and 997-1012 close handler of an accepted socket (inbound)
PeerClose(p) ==
  \* 429, 1011 both close handlers end with resetAutoShutdown
  /\ resetAutoShutdown
  /\ remotePeers[p].links > 0
  /\ LET peer == remotePeers[p]
         o1 == PushSessionsRemoved(out, peer.sessions)
         sayDisc == peer.connected /\ ~peer.gaveUp /\ peer.status # "disconnected"
         o2 == IF peer.inbound \/ sayDisc
                 THEN PushTo(o1, subscribers, Event("peer_disconnected", peer.host)) ELSE o1
         o3 == IF peer.inbound THEN o2
               ELSE PushTo(o2, subscribers, Event("peer_gave_up", peer.host))
         \* 427-429 remotePeers.delete(peer.host) removes what the key holds now
         gone == IF ~peer.inbound /\ peer.removed THEN MapGet(remotePeers, peer.host) ELSE {}
         rp1 == [q \in Peers |->
                   IF q \in gone THEN [remotePeers[q] EXCEPT !.present = FALSE]
                   ELSE remotePeers[q]]
     IN
     IF peer.inbound /\ ~peer.hello
       \* 997-999 no hello was received on this connection: peer = null
       THEN /\ remotePeers' = [remotePeers EXCEPT ![p] = AbsentPeer]
            /\ UNCHANGED <<out, peerOrder>>
       ELSE /\ out' = o3
            /\ remotePeers' =
                 [rp1 EXCEPT ![p] =
                    IF peer.inbound
                      THEN [rp1[p] EXCEPT !.connected = FALSE, !.socket = FALSE,
                                          !.links = @ - 1, !.destroyed = FALSE]
                      ELSE [rp1[p] EXCEPT !.connected = FALSE, !.socket = FALSE,
                                          !.links = @ - 1, !.destroyed = FALSE,
                                          !.gaveUp = TRUE,
                                          !.status = IF sayDisc THEN "disconnected" ELSE @]]
            /\ peerOrder' = SelectSeq(peerOrder, LAMBDA q : q \notin gone)
  /\ peerIn' = [peerIn EXCEPT ![p] = <<>>]
  /\ UNCHANGED <<localSessions, subscribers, pendingRelays, calls, rateState, now, buffer, oversized, moreVars,
                 connOpen, nreq, peerOut, auditLog, endpointUp, delivered, admitted,
                 rpcSeen, watchVars>>

(* ============ initial states =========================================== *)

PeerEntry(host, sessions, inbound) ==
  [host |-> host, present |-> TRUE, connected |-> TRUE, socket |-> TRUE,
   sessions |-> sessions, inbound |-> inbound, removed |-> FALSE, gaveUp |-> FALSE,
   status |-> "connected", links |-> 1, hello |-> TRUE, destroyed |-> FALSE]

(* ============ the session endpoint (part_003) ========================== *)

\* connections a client opens to the endpoint's socket
EndpointConns == {"k1", "k2"}

\* what ctx.sessionManager.getSessionName() returns; "" is the unset name
SessionNames == {"", "n1", " n1 ", "n2", "a/b"}

\* a null alias
NoAlias == ""

\* String.prototype.trim on the names above
trim(name) == IF name = " n1 " THEN "n1" ELSE name

\* part_003:2110-2117 isSafeAlias
isSafeAlias(alias) ==
  LET w == Spelling(alias) IN
  /\ Len(w) > 0
  /\ \A i \in DOMAIN w : w[i] # "/" /\ w[i] # "\\"
  /\ \A i \in 1..(Len(w) - 1) : ~(w[i] = "." /\ w[i + 1] = ".")

\* part_003:2123-2128 getSessionAlias
getSessionAlias(name) ==
  LET alias == IF name # "" THEN trim(name) ELSE ""
  IN IF alias = "" \/ ~isSafeAlias(alias) THEN NoAlias ELSE alias

\* the syncAlias calls that can be between two awaits at the same time
SyncSlots == {1, 2, 3}

IdleRun == [pc |-> "idle", alias |-> NoAlias, entries |-> {}]

\* part_003:2179-2192 syncAlias up to its first await: nothing to do when the
\* socket path is null (the server is being stopped) or the alias of the name
\* is the recorded one, else the call waits for readdir
RECURSIVE syncAlias(_, _)
syncAlias(runs, n) ==
  LET alias == getSessionAlias(session.name)
      free == {r \in SyncSlots : runs[r].pc = "idle"}
      r == CHOOSE x \in free : \A y \in free : x <= y
  IN IF n = 0 \/ alias = state.alias \/ stopRun # "idle" THEN runs
     ELSE syncAlias([runs EXCEPT ![r] = [pc |-> "readdir", alias |-> alias,
                                         entries |-> {}]], n - 1)

\* a handler that calls syncAlias n times finds a slot for each call
CanSync(n) ==
  \/ getSessionAlias(session.name) = state.alias
  \/ stopRun # "idle"
  \/ Cardinality({r \in SyncSlots : syncRuns[r].pc = "idle"}) >= n

\* part_003:4003-4010 the state object and a session that is idle on its
\* first entry, with no name and no client connected
InitSession ==
  /\ state = [turnEndSubscriptions |-> <<>>, alias |-> NoAlias]
  /\ sockets = [k \in EndpointConns |->
                  [status |-> "none", out |-> <<>>, received |-> <<>>,
                   cleanups |-> <<>>, waiting |-> <<>>]]
  /\ session = [name |-> "", leaf |-> 1, idle |-> TRUE, turnIndex |-> 0, renames |-> 0]
  /\ aliasLinks = {}
  /\ syncRuns = [r \in SyncSlots |-> IdleRun]
  /\ socketFile = TRUE
  /\ stopRun = "idle"

\* a daemon that has one local session s1, an outbound peer pA that advertised
\* s2 and an inbound peer pB that advertised s3, and two control clients
InitCore ==
  /\ InitSession
  /\ subscribers = {}
  /\ pendingRelays = [r \in RequestIds |-> NoSlot]
  /\ calls = [h \in Slots |-> FreeCall]
  /\ rateState = [k \in RateKeys |-> NoEntry]
  /\ now = 0
  /\ buffer = [c \in Clients |-> 0]
  /\ oversized = [t \in Transports |-> 0]
  /\ config = {"hA"}
  /\ connOpen = [c \in Clients |-> TRUE]
  /\ nreq = [c \in Clients |-> 0]
  /\ out = [c \in Clients |-> <<>>]
  /\ peerOut = [p \in Peers |-> <<>>]
  /\ peerIn = [p \in Peers |-> <<>>]
  /\ auditLog = <<>>
  /\ delivered = [s \in SessionIds |-> 0]
  /\ admitted = [k \in RateKeys |-> [t \in Instants |-> 0]]
  /\ rpcSeen = [p \in Peers |-> [t \in Instants |-> 0]]
  /\ debounce = [s \in SessionIds |-> 0]
  /\ probing = [s \in SessionIds |-> 0]
  /\ removedSince = [s \in SessionIds |-> FALSE]

\* no peer string has been parsed yet
NoParse == [done |-> FALSE, host |-> <<>>, port |-> 0]

\* no add_peer has stored an address; the daemon listens on the port of shared.js:10
NoStored == [done |-> FALSE, host |-> <<>>, port |-> 0, listen |-> 7433]

InitParsed ==
  /\ peerStr = <<>>
  /\ parsed = NoParse
  /\ stored = NoStored

\* the daemon processes that can exist for one control directory
Daemons == {"d1", "d2"}

NoProc == [pc |-> "none", daemonServer |-> FALSE, tcpServer |-> FALSE, code |-> 0]

\* main (1021-1041) has finished in process d1: both servers listen, and
\* daemon.sock and daemon.pid are the ones it made
InitRunning ==
  /\ procs = [d \in Daemons |->
               IF d = "d1" THEN [pc |-> "running", daemonServer |-> TRUE,
                                 tcpServer |-> TRUE, code |-> 0]
                           ELSE NoProc]
  /\ disk = [sock |-> "d1", pid |-> "d1"]
  /\ tcpPort = "d1"
  /\ immediates = {}

\* main (1021-1041) with the default timeout: the timer is armed at the start
InitCommon ==
  /\ InitCore
  /\ InitParsed
  /\ InitRunning
  /\ autoShutdownTimeout = DEFAULT_AUTO_SHUTDOWN_TIMEOUT
  /\ autoShutdownTimer = ArmedTimer(0)
  /\ exited = FALSE

InitTables ==
  /\ localSessions = {"s1"}
  /\ endpointUp = [s \in SessionIds |-> s = "s1"]
  /\ sockFile = [s \in SessionIds |-> s = "s1"]
  /\ lastProbe = [s \in SessionIds |-> IF s = "s1" THEN "ok" ELSE "none"]
  /\ emitted = [s \in SessionIds |->
                  [added |-> IF s = "s1" THEN 1 ELSE 0, removed |-> 0]]
  /\ remotePeers = [p \in Peers |->
                      IF p = "pA" THEN PeerEntry("hA", {"s2"}, FALSE)
                                  ELSE PeerEntry("hB", {"s3"}, TRUE)]
  /\ peerOrder = <<"pA", "pB">>

Init ==
  /\ InitCommon
  /\ InitTables

(* ============ specification of the relay plane ========================= *)

TotalReq == SumOver(nreq, Clients)

Line(type, target, requestId, ff, cmd) ==
  [type |-> type, target |-> target, requestId |-> requestId, ff |-> ff, cmd |-> cmd]

\* relay requests for the session s2 of peer pA, answered or not by the peers
RemoteRelayLines == {Line("relay", "s2", r, FALSE, "get_message") : r \in RequestIds}

RpcResponses == {[type |-> "rpc_response", requestId |-> r, target |-> "-",
                  success |-> ok] : r \in RequestIds, ok \in BOOLEAN}

Next ==
  \/ \E c \in Clients, ln \in RemoteRelayLines :
       TotalReq < MaxReq /\ DaemonData(c, ln)
  \/ \E p \in Peers, msg \in RpcResponses : PeerSends(p, msg)
  \/ \E p \in Peers : PeerData(p)
  \/ \E h \in Slots : RelayTimeout(h)
  \/ \E c \in Clients : ClientClose(c)
  \/ \E p \in Peers : PeerClose(p)

Spec == Init /\ [][Next]_vars

(* ============ properties of the relay plane ============================ *)

RespFrames(c, n) ==
  {i \in DOMAIN out[c] : out[c][i].type = "response" /\ out[c][i].line = n}

Outstanding(c, n) ==
  \E h \in Slots : calls[h].kind # "free" /\ calls[h].conn = c /\ calls[h].line = n

IsForwardedRelay(f) == f.type = "rpc" /\ ~f.ff

\* C1: every non-fire-and-forget relay forwarded to a peer as an rpc frame gets
\* exactly one relay response written to its origin while the origin stays
\* connected: none while the relay is outstanding, one once it is over, never
\* two; and that response is either the proxied inner response with the relay's
\* requestId or the timeout error.
C1_ExactlyOneRelayResponse ==
  \A p \in Peers : \A i \in DOMAIN peerOut[p] :
    LET f == peerOut[p][i]
        rs == RespFrames(f.conn, f.line)
    IN IsForwardedRelay(f) =>
         /\ Cardinality(rs) <= 1
         /\ Outstanding(f.conn, f.line) => rs = {}
         /\ (~Outstanding(f.conn, f.line) /\ connOpen[f.conn]) => Cardinality(rs) = 1
         /\ \A j \in rs :
              LET r == out[f.conn][j] IN
              \/ r.success /\ r.body \in {"inner:ok", "inner:fail"}
                           /\ r.requestId = f.requestId
              \/ ~r.success /\ r.body = "timeout"

\* one client had one relay answered by the peer and another one timed out
C1_Witness ==
  \E c \in Clients : \E i, j \in DOMAIN out[c] :
    /\ out[c][i].body = "inner:ok"
    /\ out[c][j].body = "timeout"
    /\ connOpen[c]

\* C9: the outstanding remote relays have pairwise distinct requestIds, and each
\* of them owns the pending entry under its requestId (no registration
\* overwrote it, no other relay's expiry or completion removed it).
C9_PendingDistinct ==
  /\ \A h1, h2 \in Slots :
       (h1 # h2 /\ calls[h1].kind = "remote" /\ calls[h2].kind = "remote")
         => calls[h1].requestId # calls[h2].requestId
  /\ \A h \in Slots :
       calls[h].kind = "remote" => pendingRelays[calls[h].requestId] = h

\* a step in which the daemon reads the frame at the head of peer p's socket
Reads(p) ==
  /\ peerIn[p] # <<>>
  /\ peerIn'[p] = Tail(peerIn[p])
  /\ remotePeers'[p].socket

\* C10 as stated: an rpc_response is forwarded only when a relay with its
\* requestId is pending and that relay was sent to the peer the response comes
\* from; otherwise nothing is written and the pending map stays as it is.
C10_OnlyFromOwningPeer ==
  [][\A p \in Peers :
       (Reads(p) /\ Head(peerIn[p]).type = "rpc_response") =>
         LET h == pendingRelays[Head(peerIn[p]).requestId] IN
         IF h # NoSlot /\ calls[h].peer = p
           THEN TRUE
           ELSE out' = out /\ pendingRelays' = pendingRelays]_vars

\* C10 amended: an rpc_response is forwarded only when a relay with its
\* requestId is pending (whichever peer socket it arrives on); one whose
\* requestId is not pending is dropped: nothing is written to any client and
\* the pending map stays as it is.
C10_OnlyPendingForwarded ==
  [][\A p \in Peers :
       (Reads(p) /\ Head(peerIn[p]).type = "rpc_response") =>
         LET h == pendingRelays[Head(peerIn[p]).requestId] IN
         IF h # NoSlot
           THEN /\ pendingRelays' =
                     [pendingRelays EXCEPT ![Head(peerIn[p]).requestId] = NoSlot]
                /\ \A c \in Clients : c # calls[h].conn => out'[c] = out[c]
           ELSE out' = out /\ pendingRelays' = pendingRelays /\ calls' = calls]_vars

\* a relay timed out, another was answered, and a late response is on the wire
C10_Witness ==
  \E c \in Clients : \E i, j \in DOMAIN out[c] :
    /\ out[c][i].body = "timeout"
    /\ out[c][j].body = "inner:ok"
    /\ \E p \in Peers : peerIn[p] # <<>> /\ pendingRelays[Head(peerIn[p]).requestId] = NoSlot

(* ============ specification of relay completion ======================== *)

\* non-fire-and-forget relay requests for the local session s1 and for the
\* session s2 of peer pA
LiveRelayLines ==
  {Line("relay", s, "r1", FALSE, "get_message") : s \in {"s1", "s2"}}

LiveResponses == {RpcResponseFrame("r1", TRUE)}

NextLive ==
  \/ \E c \in Clients, ln \in LiveRelayLines :
       TotalReq < MaxReq /\ DaemonData(c, ln)
  \/ \E msg \in LiveResponses : PeerSends("pA", msg)
  \/ PeerData("pA")
  \/ \E h \in Slots : RelayTimeout(h)
  \/ \E h \in Slots : LocalConnect(h)
  \/ \E h \in Slots : LocalData(h, "inner:ok")
  \/ \E h \in Slots : LocalData(h, "badjson")
  \/ \E h \in Slots : LocalError(h)
  \/ \E h \in Slots : LocalClose(h)
  \/ \E h \in Slots : LocalTimeout(h)
  \/ EndpointCrash("s1")
  \/ ClientClose("c2")
  \/ PeerClose("pA")

\* setTimeout callbacks run: the timer of a pending remote relay (792-795) and
\* the timer of relayToLocalSocket (519-525) fire unless they were cleared
FairLive ==
  \A h \in Slots : WF_vars(RelayTimeout(h)) /\ WF_vars(LocalTimeout(h))

SpecLive == Init /\ [][NextLive]_vars /\ FairLive

\* C2: every accepted non-fire-and-forget relay, to a local or a remote target,
\* leads to a response frame for its request line on the requester's connection
\* (or to that connection being closed), also when the endpoint or the peer
\* socket goes away while it is in flight; no relay stays outstanding forever.
C2_RelayEventuallyAnswered ==
  \A c \in Clients : \A n \in 1..MaxReq :
    Outstanding(c, n) ~> (~Outstanding(c, n) /\ (RespFrames(c, n) # {} \/ ~connOpen[c]))

\* a local relay failed because its endpoint died after the write, and a remote
\* relay timed out after the owning peer's socket had closed
C2_Witness ==
  /\ ~endpointUp["s1"]
  /\ ~remotePeers["pA"].socket
  /\ \E c \in Clients : \E i, j \in DOMAIN out[c] :
       /\ out[c][i].body = "Socket closed before response"
       /\ out[c][j].body = "timeout"
       /\ connOpen[c]

(* ============ specification of the control socket ====================== *)

\* request lines of every shape the data handler tells apart: not JSON, the
\* JSON value null, an unknown type, status, subscribe, and relays to the local
\* session s1 (awaited, fire-and-forget, and without an rpcCommand)
ControlLines ==
  {Line(t, "s1", "r1", FALSE, "get_message") :
     t \in {"nonjson", "null", "bogus", "status", "subscribe", "relay"}}
  \cup {Line("relay", "s1", "r1", TRUE, cmd) : cmd \in {"get_message", "none"}}
  \cup {Line("relay", "s1", "r1", FALSE, "none")}

NextControl ==
  \/ \E c \in Clients, ln \in ControlLines :
       TotalReq < MaxReq /\ DaemonData(c, ln)
  \/ \E h \in Slots : LocalConnect(h)
  \/ \E h \in Slots : LocalData(h, "inner:ok")
  \/ \E h \in Slots : LocalTimeout(h)
  \/ ClientClose("c2")

SpecControl == Init /\ [][NextControl]_vars

\* the handler of line n of connection c is still at its await
Awaited(c, n) ==
  \E h \in Slots :
    calls[h].kind \in {"local", "remote"} /\ calls[h].conn = c /\ calls[h].line = n

\* C3: every complete request line received on the control socket, whatever its
\* content, has exactly one response frame written for it: never two, and one
\* as soon as its handler is over (events are extra frames, not responses).
C3_ExactlyOneResponsePerLine ==
  \A c \in Clients : \A n \in 1..nreq[c] :
    /\ Cardinality(RespFrames(c, n)) <= 1
    /\ (connOpen[c] /\ ~Awaited(c, n)) => Cardinality(RespFrames(c, n)) = 1

\* C4: on one control connection the response frames appear in the order in
\* which their request lines were received.
C4_ResponsesInRequestOrder ==
  \A c \in Clients : \A i, j \in DOMAIN out[c] :
    (i < j /\ out[c][i].type = "response" /\ out[c][j].type = "response")
      => out[c][i].line <= out[c][j].line

(* ============ specification of the relay rate limiter ================== *)

\* one client sends relay requests for a session nobody has, at the end of one
\* minute and at the start of the next
RateLines == {Line("relay", "s9", "r1", FALSE, "get_message")}

RateInstants == {WINDOW_MS - 1, WINDOW_MS}

NextRate ==
  \/ \E ln \in RateLines :
       /\ checkRateLimit(rateState, "local", now) \/ Len(auditLog) < MaxOver
       /\ DaemonData("c1", ln)
  \/ \E t \in RateInstants : Advance(t)

SpecRate == Init /\ [][NextRate]_vars

\* admissions of a key at the instants of a set
AdmittedIn(key, T) == SumOver(admitted[key], T)

\* C5 as stated: for every key and instant t, at most LIMIT relay requests are
\* admitted in the rolling interval (t - 60 s, t].
C5_RollingWindowBound ==
  \A key \in RateKeys : \A t \in Instants :
    AdmittedIn(key, {u \in Instants : t - WINDOW_MS < u /\ u <= t}) <= LIMIT

\* C5 amended: for every key, at most LIMIT relay requests are admitted within
\* one aligned minute [k * 60 s, (k + 1) * 60 s) of the clock; a rolling 60 s
\* interval overlaps two such minutes and holds at most 2 * LIMIT admissions.
C5_AlignedWindowBound ==
  \A key \in RateKeys :
    /\ \A t \in Instants :
         AdmittedIn(key, {u \in Instants : currentWindow(u) = currentWindow(t)}) <= LIMIT
    /\ \A t \in Instants :
         AdmittedIn(key, {u \in Instants : t - WINDOW_MS < u /\ u <= t}) <= 2 * LIMIT

\* a full minute was used up, one request was refused, and the first request of
\* the next minute, one millisecond later, was admitted
C5_Witness ==
  /\ admitted["local"][WINDOW_MS - 1] = LIMIT
  /\ admitted["local"][WINDOW_MS] >= 1
  /\ \E i \in DOMAIN out["c1"] : out["c1"][i].body = "Rate limit exceeded"

(* ============ specification of rate limiting per requester ============= *)

\* rpc frames of peer pB asking for the local session s1
PeerRpcFrames ==
  {[type |-> "rpc", requestId |-> "r1", target |-> "s1", success |-> TRUE,
    ff |-> FALSE, conn |-> NoConn, line |-> 0]}

\* rpc frames received from peer p in the aligned minute of instant t
SeenInWindow(p, t) ==
  SumOver(rpcSeen[p], {u \in Instants : currentWindow(u) = currentWindow(t)})

NextPeerRate ==
  \/ \E ln \in RateLines :
       /\ checkRateLimit(rateState, "local", now) \/ Len(auditLog) < MaxOver
       /\ DaemonData("c1", ln)
  \/ \E msg \in PeerRpcFrames :
       SeenInWindow("pB", now) < LIMIT + MaxOver /\ PeerSends("pB", msg)
  \/ PeerData("pB")
  \/ \E h \in Slots : LocalConnect(h)
  \/ \E h \in Slots : LocalData(h, "inner:ok")

SpecPeerRate == Init /\ [][NextPeerRate]_vars

\* C6: a relay request over the rate limit is refused: a local client gets
\* "Rate limit exceeded" and one audit line with result "fail"; an rpc frame of
\* a peer that already sent LIMIT frames in the current minute starts no relay;
\* in both cases nothing is delivered to a session or a peer, the pending map
\* stays as it is and the requester's connection stays open.
C6_OverLimitRefused ==
  [][/\ \A c \in Clients : \A ln \in RateLines :
          (DaemonData(c, ln) /\ ~checkRateLimit(rateState, "local", now)) =>
            /\ out'[c] = Append(out[c], Resp(nreq[c] + 1, "relay", FALSE,
                                             "Rate limit exceeded", "-"))
            /\ Len(auditLog') = Len(auditLog) + 1
            /\ auditLog'[Len(auditLog')].result = "fail"
            /\ delivered' = delivered /\ peerOut' = peerOut /\ calls' = calls
            /\ pendingRelays' = pendingRelays
            /\ connOpen'[c]
     /\ \A p \in Peers :
          (Reads(p) /\ Head(peerIn[p]).type = "rpc" /\ SeenInWindow(p, now) >= LIMIT) =>
            /\ calls' = calls
            /\ delivered' = delivered
            /\ pendingRelays' = pendingRelays
            /\ remotePeers'[p].socket]_vars

(* ============ local session discovery (daemon.js:149-242) ============== *)

SessionFrame(type, s) ==
  [type |-> type, requestId |-> "-", target |-> s, success |-> TRUE,
   ff |-> FALSE, conn |-> NoConn, line |-> 0]

\* daemon.js:243-254 broadcastToPeers: one write per connected peer
broadcastToPeers(po, frame) ==
  [p \in Peers |->
     IF remotePeers[p].connected /\ remotePeers[p].socket
       THEN Append(po[p], frame) ELSE po[p]]

\* a session's socket file appears in the control directory (its endpoint
\* listens); fs.watch calls back k times for it, and each callback starts its
\* 50 ms wait (218-228)
FileCreate(s, k) ==
  /\ ~sockFile[s]
  /\ emitted[s].added < MaxAdds
  /\ debounce[s] + probing[s] + k <= MaxPending
  /\ sockFile' = [sockFile EXCEPT ![s] = TRUE]
  /\ endpointUp' = [endpointUp EXCEPT ![s] = TRUE]
  /\ debounce' = [debounce EXCEPT ![s] = @ + k]
  /\ UNCHANGED <<localSessions, peerVars, ctlVars, restVars, peerOut, probing, lastProbe,
                 removedSince, emitted>>

\* the socket file is removed (its endpoint is gone); fs.watch calls back once
FileRemove(s) ==
  /\ sockFile[s]
  /\ debounce[s] + probing[s] < MaxPending
  /\ sockFile' = [sockFile EXCEPT ![s] = FALSE]
  /\ endpointUp' = [endpointUp EXCEPT ![s] = FALSE]
  /\ debounce' = [debounce EXCEPT ![s] = @ + 1]
  /\ removedSince' = [removedSince EXCEPT ![s] = TRUE]
  /\ UNCHANGED <<localSessions, peerVars, ctlVars, restVars, peerOut, probing, lastProbe,
                 emitted>>

\* daemon.js:194-204 removeLocalSession
removeLocalSession(s) ==
  IF s \notin localSessions
    THEN UNCHANGED <<localSessions, peerOut, out, emitted>>
    ELSE /\ localSessions' = localSessions \ {s}
         /\ peerOut' = broadcastToPeers(peerOut, SessionFrame("session_removed", s))
         /\ out' = PushTo(out, subscribers, Event("session_removed", s))
         /\ emitted' = [emitted EXCEPT ![s].removed = @ + 1]

\* daemon.js:228-234 the 50 ms wait of one callback is over: existsSync, then
\* addLocalSession up to its await (167-175) or removeLocalSession
DebounceDone(s) ==
  \* 203 removeLocalSession resets the timer when it removed an entry
  /\ autoShutdownTimer' = IF ~sockFile[s] /\ s \in localSessions THEN ArmedTimer(now)
                          ELSE autoShutdownTimer
  /\ debounce[s] > 0
  /\ debounce' = [debounce EXCEPT ![s] = @ - 1]
  /\ IF sockFile[s]
       THEN /\ probing' = [probing EXCEPT ![s] =
                             IF ~isSafeSessionId(s) \/ s \in localSessions THEN @ ELSE @ + 1]
            /\ UNCHANGED <<localSessions, peerOut, out, emitted>>
       ELSE /\ removeLocalSession(s)
            /\ UNCHANGED probing
  /\ UNCHANGED <<remotePeers, peerOrder, peerIn, subscribers, pendingRelays, calls,
                 rateState, now, buffer, oversized, moreVars, connOpen, nreq, auditLog, endpointUp, delivered,
                 admitted, rpcSeen, sockFile, lastProbe, removedSince>>

\* daemon.js:176-192 addLocalSession after its await: the entry is set and
\* announced when the probe found the endpoint alive
AddAfterProbe(s, alive) ==
  IF ~alive
    THEN UNCHANGED <<localSessions, peerOut, out, emitted>>
    ELSE /\ localSessions' = localSessions \cup {s}
         /\ peerOut' = broadcastToPeers(peerOut, SessionFrame("session_added", s))
         /\ out' = PushTo(out, subscribers, Event("session_added", s))
         /\ emitted' = [emitted EXCEPT ![s].added = @ + 1]

\* daemon.js:149-166 verifySocketAlive settles (connect or error), and the
\* caller's continuation runs
ProbeDone(s) ==
  \* 192 addLocalSession resets the timer when it added the entry
  /\ autoShutdownTimer' = IF endpointUp[s] THEN ArmedTimer(now) ELSE autoShutdownTimer
  /\ probing[s] > 0
  /\ probing' = [probing EXCEPT ![s] = @ - 1]
  /\ lastProbe' = [lastProbe EXCEPT ![s] = IF endpointUp[s] THEN "ok" ELSE "fail"]
  /\ removedSince' = [removedSince EXCEPT ![s] = FALSE]
  /\ AddAfterProbe(s, endpointUp[s])
  /\ UNCHANGED <<remotePeers, peerOrder, peerIn, subscribers, pendingRelays, calls,
                 rateState, now, buffer, oversized, moreVars, connOpen, nreq, auditLog, endpointUp, delivered,
                 admitted, rpcSeen, sockFile, debounce>>

(* ============ specification of session discovery ======================= *)

WatchedSessions == {"s1"}

SubscribeLine == Line("subscribe", "s1", "r1", FALSE, "get_message")

NextWatch ==
  \/ \E s \in WatchedSessions, k \in 1..MaxNotify : FileCreate(s, k)
  \/ \E s \in WatchedSessions : FileRemove(s)
  \/ \E s \in WatchedSessions : DebounceDone(s)
  \/ \E s \in WatchedSessions : ProbeDone(s)
  \/ \E s \in WatchedSessions : EndpointCrash(s)
  \/ nreq["c1"] = 0 /\ DaemonData("c1", SubscribeLine)

SpecWatch == Init /\ [][NextWatch]_vars

\* no watcher callback is waiting and no probe is in flight for session s
Settled(s) == debounce[s] = 0 /\ probing[s] = 0

\* C7: a session is in the local-session table if and only if its endpoint was
\* reachable at the most recent probe of it and no directory-remove event for
\* it has fired since; stated for the moments at which no watcher callback is
\* waiting and no probe is in flight, where the interleaving is over.
C7_TableIffProbedAndNotRemoved ==
  \A s \in SessionIds :
    Settled(s) => (s \in localSessions <=> (lastProbe[s] = "ok" /\ ~removedSince[s]))

\* C8: every appearance of a session is announced by exactly one session_added
\* and every disappearance by one session_removed: the announcements of a
\* session alternate, one more added than removed exactly while it is listed.
C8_OneAnnouncementPerChange ==
  \A s \in SessionIds :
    emitted[s].added - emitted[s].removed = (IF s \in localSessions THEN 1 ELSE 0)

(* ============ specification of relays to a local session =============== *)

\* relay requests for the local session s1, awaited and fire-and-forget, and
\* for the session s2 of peer pA
LocalFirstLines ==
  {Line("relay", "s1", "r1", ff, "get_message") : ff \in BOOLEAN}
  \cup {Line("relay", "s2", "r1", FALSE, "get_message")}

NextLocalFirst ==
  \/ \E c \in Clients, ln \in LocalFirstLines :
       TotalReq < MaxReq /\ DaemonData(c, ln)
  \/ PeerSends("pA", SessionFrame("session_added", "s1"))
  \/ PeerSends("pA", RpcResponseFrame("r1", TRUE))
  \/ PeerData("pA")
  \/ \E h \in Slots : RelayTimeout(h)
  \/ \E h \in Slots : LocalConnect(h)
  \/ \E h \in Slots : LocalData(h, "inner:ok")
  \/ \E h \in Slots : LocalTimeout(h)

SpecLocalFirst == Init /\ [][NextLocalFirst]_vars

\* C11: a relay request whose target is in the local-session table when it is
\* handled writes nothing to any peer and registers no pending relay, also when
\* a peer advertises a session with the same id.
C11_LocalTargetStaysLocal ==
  [][\A c \in Clients : \A ln \in LocalFirstLines :
       (DaemonData(c, ln) /\ ln.target \in localSessions) =>
         (peerOut' = peerOut /\ pendingRelays' = pendingRelays)]_vars

\* peer pA advertises s1, which is also a local session, and a relay to s1 was
\* delivered to the local endpoint and answered
C11_Witness ==
  /\ "s1" \in localSessions
  /\ "s1" \in remotePeers["pA"].sessions
  /\ delivered["s1"] > 0
  /\ \E c \in Clients : \E i \in DOMAIN out[c] : out[c][i].body = "inner:ok"
  /\ \A p \in Peers : \A i \in DOMAIN peerOut[p] : peerOut[p][i].target # "s1"

(* ============ size limit of the control socket (daemon.js:863-898) ===== *)

\* daemon.js:866 / 881 the frame written before the socket is destroyed
SizeError ==
  [type |-> "error", line |-> 0, command |-> "-", success |-> FALSE,
   body |-> "Message size exceeds 8192 bytes", requestId |-> "-"]

\* a read chunk: complete lines (their byte lengths, each followed by a
\* newline) and the bytes after the last newline
RECURSIVE SumSeq(_)
SumSeq(q) == IF q = <<>> THEN 0 ELSE Head(q) + SumSeq(Tail(q))

ChunkBytes(ch) == SumSeq(ch.lines) + Len(ch.lines) + ch.tail

\* daemon.js:872-874 buffer += chunk; lines = buffer.split("\n"); buffer = lines.pop()
SplitLines(buf, ch) ==
  IF ch.lines = <<>> THEN <<>>
  ELSE <<buf + Head(ch.lines)>> \o Tail(ch.lines)

SplitRest(buf, ch) == IF ch.lines = <<>> THEN buf + ch.tail ELSE ch.tail

\* daemon.js:875-897 the loop over the complete lines; every line is a status
\* request padded to its length: o are the frames written, n the lines handled
RECURSIVE HandleLines(_, _, _)
HandleLines(ls, o, n) ==
  IF ls = <<>> THEN [o |-> o, n |-> n, open |-> TRUE]
  ELSE IF Head(ls) = 0 THEN HandleLines(Tail(ls), o, n)
  ELSE IF ~checkMaxMsgSize(Head(ls))
    THEN [o |-> Append(o, SizeError), n |-> n, open |-> FALSE]
  ELSE HandleLines(Tail(ls), Append(o, Resp(n + 1, "status", TRUE, "status", "-")), n + 1)

\* daemon.js:863-898 the data handler of a control connection gets one chunk
DaemonChunk(c, ch) ==
  /\ connOpen[c]
  /\ IF ~checkMaxMsgSize(ChunkBytes(ch))
       \* 864-871 the chunk itself is over the limit
       THEN /\ out' = [out EXCEPT ![c] = Append(@, SizeError)]
            /\ connOpen' = [connOpen EXCEPT ![c] = FALSE]
            /\ subscribers' = subscribers \ {c}
            /\ UNCHANGED <<buffer, nreq>>
       ELSE LET r == HandleLines(SplitLines(buffer[c], ch), out[c], nreq[c]) IN
            /\ buffer' = [buffer EXCEPT ![c] = SplitRest(buffer[c], ch)]
            /\ out' = [out EXCEPT ![c] = r.o]
            /\ nreq' = [nreq EXCEPT ![c] = r.n]
            /\ connOpen' = [connOpen EXCEPT ![c] = r.open]
            /\ subscribers' = IF r.open THEN subscribers ELSE subscribers \ {c}
  \* 575 every line that reaches handleDaemonCommand resets the timer
  /\ autoShutdownTimer' = IF nreq'[c] > nreq[c] THEN ArmedTimer(now) ELSE autoShutdownTimer
  /\ UNCHANGED <<localSessions, peerVars, pendingRelays, calls, rateState, now, peerOut,
                 auditLog, endpointUp, delivered, admitted, rpcSeen, watchVars, oversized,
                 moreVars>>

(* ============ specification of the size limit ========================== *)

LineBytes == {0, 100, 4096, MAX_MSG_BYTES}

TailBytes == {0, 4200}

Chunks ==
  {[lines |-> ls, tail |-> t] :
     ls \in {<<>>} \cup {<<a>> : a \in LineBytes} \cup {<<a, b>> : a, b \in LineBytes},
     t \in TailBytes}

\* a session_added frame whose line is one byte over the limit
BigFrame ==
  [type |-> "session_added", requestId |-> "-", target |-> "s9", success |-> TRUE,
   ff |-> FALSE, conn |-> NoConn, line |-> 0, bytes |-> MAX_MSG_BYTES + 1]

NextSize ==
  \/ \E c \in Clients, ch \in Chunks :
       /\ TotalReq < MaxReq
       /\ buffer[c] <= MAX_MSG_BYTES
       /\ DaemonChunk(c, ch)
  \/ ClientClose("c2")
  \/ \E p \in Peers : PeerSends(p, BigFrame)
  \/ \E p \in Peers :
       oversized["outbound"] < MaxOver /\ PeerData(p)
  \/ PeerClose("pB")

SpecSize == Init /\ [][NextSize]_vars

\* the complete lines a chunk finishes on connection c, and those with content
ChunkLines(c, ch) == SplitLines(buffer[c], ch)

Filled(ls) == {i \in DOMAIN ls : ls[i] > 0}

\* C12: whatever the split into chunks, when every line a chunk completes has
\* at most MAX_MSG_BYTES bytes all of them are processed and the connection
\* stays open; when one of them is longer the size error is written and the
\* connection is closed.
C12_LimitIsPerLine ==
  [][\A c \in Clients : \A ch \in Chunks :
       DaemonChunk(c, ch) =>
         LET ls == ChunkLines(c, ch) IN
         IF \A i \in DOMAIN ls : ls[i] <= MAX_MSG_BYTES
           THEN /\ connOpen'[c]
                /\ nreq'[c] = nreq[c] + Cardinality(Filled(ls))
           ELSE /\ ~connOpen'[c]
                /\ out'[c][Len(out'[c])] = SizeError]_vars

\* C13: a line longer than MAX_MSG_BYTES is never parsed and dispatched on any
\* transport, and no connection holds more than MAX_MSG_BYTES bytes of an
\* unfinished line.
C13_NoOversizedLineHandled ==
  /\ \A t \in Transports : oversized[t] = 0
  /\ \A c \in Clients : buffer[c] <= MAX_MSG_BYTES

(* ============ specification of session ids at the ingresses ============ *)

DiskIds == {"s9", "..x"}

WireIds == {"s9", "a/b"}

NextSafeId ==
  \/ \E s \in DiskIds : FileCreate(s, 1)
  \/ \E s \in DiskIds : DebounceDone(s)
  \/ \E s \in DiskIds : ProbeDone(s)
  \/ \E s \in WireIds : PeerSends("pA", SessionFrame("session_added", s))
  \/ \E s \in WireIds : PeerSends("pA", [type |-> "hello", host |-> "hA", sessions |-> {s}])
  \/ PeerData("pA")

SpecSafeId == Init /\ [][NextSafeId]_vars

\* C14: no session id that fails the safe-id check is in the local-session
\* table or in the session map of any peer (the two sources of list_sessions).
C14_OnlySafeIdsInTables ==
  \A s \in SessionIds :
    ~isSafeSessionId(s) =>
      /\ s \notin localSessions
      /\ \A p \in Peers : s \notin remotePeers[p].sessions

(* ============ specification of accepted peer connections =============== *)

\* daemon.js:920-927 the TCP server accepts a connection: a socket with its own
\* buffer, helloDone = false and peer = null, in a slot no object occupies
Accept(p) ==
  /\ ~remotePeers[p].present
  /\ remotePeers[p].links = 0
  /\ remotePeers' = [remotePeers EXCEPT ![p] =
                       [AbsentPeer EXCEPT !.inbound = TRUE, !.socket = TRUE, !.links = 1]]
  /\ peerIn' = [peerIn EXCEPT ![p] = <<>>]
  /\ peerOut' = [peerOut EXCEPT ![p] = <<>>]
  /\ UNCHANGED <<localSessions, peerOrder, ctlVars, restVars, endpointUp, watchVars>>

Hosts == {"hA", "hB"}

HelloFrame(h, S) == [type |-> "hello", host |-> h, sessions |-> S]

\* the daemon has dialled hA, which advertised s2; nobody has connected to it
InitDup ==
  /\ InitCommon
  /\ localSessions = {"s1"}
  /\ endpointUp = [s \in SessionIds |-> s = "s1"]
  /\ sockFile = [s \in SessionIds |-> s = "s1"]
  /\ lastProbe = [s \in SessionIds |-> IF s = "s1" THEN "ok" ELSE "none"]
  /\ emitted = [s \in SessionIds |->
                  [added |-> IF s = "s1" THEN 1 ELSE 0, removed |-> 0]]
  /\ remotePeers = [p \in Peers |->
                      IF p = "pA" THEN PeerEntry("hA", {"s2"}, FALSE) ELSE AbsentPeer]
  /\ peerOrder = <<"pA">>

NextDup ==
  \/ \E p \in Peers : Accept(p)
  \/ \E p \in Peers, h \in Hosts, S \in {{}, {"s2"}} :
       remotePeers[p].inbound /\ PeerSends(p, HelloFrame(h, S))
  \/ \E p \in Peers :
       remotePeers[p].inbound /\ PeerSends(p, SessionFrame("session_added", "s9"))
  \/ \E p \in Peers : PeerData(p)
  \/ \E p \in Peers : PeerClose(p)

SpecDup == InitDup /\ [][NextDup]_vars

\* an accepted connection that has said hello and is still open
LiveInbound(q) ==
  /\ remotePeers[q].inbound
  /\ remotePeers[q].hello
  /\ remotePeers[q].socket
  /\ ~remotePeers[q].destroyed

\* C15: an accepted connection that has said hello and is open is the one
\* entry the table holds for its host, and that entry is connected, whatever
\* happened to an older socket of the same host.
C15_NewestInboundOwnsHost ==
  \A q \in Peers :
    LiveInbound(q) =>
      /\ MapGet(remotePeers, remotePeers[q].host) = {q}
      /\ remotePeers[q].connected

(* ============ specification of session attribution ===================== *)

ListLine == Line("list_sessions", "-", "-", FALSE, "-")

AdvertisedIds == {"s1", "s2"}

NextAttr ==
  \/ \E p \in Peers, s \in AdvertisedIds : PeerSends(p, SessionFrame("session_added", s))
  \/ \E p \in Peers : PeerSends(p, SessionFrame("session_removed", "s2"))
  \/ \E p \in Peers : PeerData(p)
  \/ TotalReq < MaxReq /\ DaemonData("c1", ListLine)
  \/ TotalReq < MaxReq /\ DaemonData("c1", Line("relay", "s2", "r1", FALSE, "get_message"))

SpecAttr == Init /\ [][NextAttr]_vars

\* the hosts a list_sessions response lists a session under
ListedHosts(frame, s) == {e.host : e \in {x \in frame.body : x.sessionId = s}}

\* C16: no list_sessions response lists one session id under two hosts.
C16_OneHostPerSessionId ==
  \A c \in Clients : \A i \in DOMAIN out[c] :
    out[c][i].command = "list_sessions" =>
      \A s \in SessionIds : Cardinality(ListedHosts(out[c][i], s)) <= 1

(* ============ peers added and removed by control clients =============== *)

\* a slot no peer object occupies
FreeObjs == {q \in Peers : ~remotePeers[q].present /\ remotePeers[q].links = 0}

\* daemon.js:451-479 connectToPeer and 372-378 setupPeerSocket: the entry of
\* the host is reused or made, and a new socket is attached to it; the socket
\* the entry had is neither closed nor looked at.  The hello of 468-471 is put
\* on the link of the new socket.
connectToPeer(q, h, isNew) ==
  /\ remotePeers' =
       [remotePeers EXCEPT ![q] =
          IF isNew
            THEN [host |-> h, present |-> TRUE, connected |-> FALSE, socket |-> TRUE,
                  sessions |-> {}, inbound |-> FALSE, removed |-> FALSE,
                  gaveUp |-> FALSE, status |-> "none", links |-> 1, hello |-> FALSE,
                  destroyed |-> FALSE]
            ELSE [@ EXCEPT !.connected = FALSE, !.socket = TRUE, !.links = @ + 1,
                           !.hello = FALSE, !.destroyed = FALSE]]
  /\ peerOrder' = IF isNew THEN Append(peerOrder, q) ELSE peerOrder
  /\ peerOut' = [peerOut EXCEPT ![q] = Append(IF isNew THEN <<>> ELSE @, buildOurHello)]
  /\ UNCHANGED peerIn

\* daemon.js:594-617 an add_peer line on a control connection, up to the await
\* of the promise that polls peer.connected
AddPeer(c, h) ==
  /\ resetAutoShutdown
  /\ connOpen[c]
  /\ nreq' = [nreq EXCEPT ![c] = @ + 1]
  /\ LET n == nreq[c] + 1
         existing == MapGet(remotePeers, h)
     IN
     IF \E q \in existing : remotePeers[q].connected
       THEN /\ out' = Send(out, c, Resp(n, "add_peer", FALSE, "Already connected", "-"))
            /\ UNCHANGED <<remotePeers, peerOrder, peerOut, peerIn, calls>>
       ELSE /\ FreeSlots # {}
            /\ existing # {} \/ FreeObjs # {}
            /\ LET q == IF existing # {} THEN CHOOSE x \in existing : TRUE
                        ELSE CHOOSE x \in FreeObjs : TRUE
                   slot == CHOOSE x \in FreeSlots : TRUE
               IN /\ connectToPeer(q, h, existing = {})
                  /\ calls' = [calls EXCEPT ![slot] = NewCall("add_peer", c, n, "-", "-", q)]
            /\ UNCHANGED out
  /\ UNCHANGED <<localSessions, subscribers, pendingRelays, rateState, now, buffer, oversized, moreVars, connOpen,
                 auditLog, endpointUp, delivered, admitted, rpcSeen, watchVars>>

\* the promise of add_peer resolved whatever the state of the peer
AddPeerAnswersEarly(slot) ==
  /\ calls[slot].kind = "add_peer"
  /\ out' = Send(out, calls[slot].conn,
                 Resp(calls[slot].line, "add_peer", TRUE,
                      remotePeers[calls[slot].peer].host, "-"))
  /\ config' = config \cup {remotePeers[calls[slot].peer].host}
  /\ calls' = [calls EXCEPT ![slot] = FreeCall]
  /\ UNCHANGED <<localSessions, peerVars, subscribers, pendingRelays, rateState, now,
                 buffer, oversized, autoShutdownTimer, autoShutdownTimeout, exited,
                 sessionVars, parseVars, procVars, immediates,
                 connOpen, nreq, peerOut, auditLog, endpointUp,
                 delivered, admitted, rpcSeen, watchVars>>

\* daemon.js:611-617, 622-627 the 200 ms poll finds peer.connected: the host
\* is put in config.peers unless it is there, the config is saved and the
\* response carries the host
AddPeerConnected(slot) ==
  /\ calls[slot].kind = "add_peer"
  /\ remotePeers[calls[slot].peer].connected
  \* the close event of a destroyed socket is handled before the next timer
  /\ ~remotePeers[calls[slot].peer].destroyed
  /\ out' = Send(out, calls[slot].conn,
                 Resp(calls[slot].line, "add_peer", TRUE,
                      remotePeers[calls[slot].peer].host, "-"))
  /\ config' = config \cup {remotePeers[calls[slot].peer].host}
  /\ calls' = [calls EXCEPT ![slot] = FreeCall]
  /\ UNCHANGED <<localSessions, peerVars, subscribers, pendingRelays, rateState, now,
                 buffer, oversized, autoShutdownTimer, autoShutdownTimeout, exited,
                 sessionVars, parseVars, procVars, immediates,
                 connOpen, nreq, peerOut, auditLog, endpointUp,
                 delivered, admitted, rpcSeen, watchVars>>

\* daemon.js:607-610, 618-622, 628-636 the 10 s timer fires before a poll has
\* seen peer.connected, or the socket of this attempt reports an error before
\* the next poll: the error is the response and the config is not touched
AddPeerFailed(slot) ==
  /\ calls[slot].kind = "add_peer"
  /\ out' = Send(out, calls[slot].conn,
                 Resp(calls[slot].line, "add_peer", FALSE,
                      IF remotePeers[calls[slot].peer].connected THEN "socket error"
                      ELSE "Connection timeout", "-"))
  /\ calls' = [calls EXCEPT ![slot] = FreeCall]
  /\ UNCHANGED <<localSessions, peerVars, subscribers, pendingRelays, rateState, restVars,
                 connOpen, nreq, peerOut, auditLog, endpointUp, delivered, admitted,
                 rpcSeen, watchVars>>

(* ============ specification of connections per host ==================== *)

NextConn ==
  \/ \E c \in Clients, h \in Hosts : TotalReq < MaxReq /\ AddPeer(c, h)
  \/ \E slot \in Slots : AddPeerConnected(slot)
  \/ \E slot \in Slots : AddPeerFailed(slot)
  \/ \E p \in Peers, S \in {{}, {"s2"}} :
       ~remotePeers[p].inbound /\ PeerSends(p, HelloFrame(remotePeers[p].host, S))
  \/ \E p \in Peers : PeerData(p)
  \/ \E p \in Peers : PeerClose(p)

SpecConn == InitDup /\ [][NextConn]_vars

\* C17: no peer host has more than one TCP connection, connecting or open,
\* attached to its entry.
C17_OneConnectionPerHost ==
  \A q \in Peers : remotePeers[q].links <= 1


\* the socket of an outbound entry that is open and greeted closes in this step
OpenOutboundCloses(p) ==
  /\ ~remotePeers[p].inbound
  /\ remotePeers[p].connected
  /\ ~remotePeers[p].removed
  /\ ~remotePeers[p].gaveUp
  /\ remotePeers[p].links = 1
  /\ remotePeers'[p].links = 0

\* C18: when an open outbound connection closes, the entry is not given up
\* at once: giving up is left to the failure of the one reconnect attempt.
C18_CloseLeavesOneRetry ==
  [][\A p \in Peers : OpenOutboundCloses(p) => ~remotePeers'[p].gaveUp]_vars

(* ============ specification of the events of a peer's close ============ *)

NextEvents ==
  \/ nreq["c1"] = 0 /\ DaemonData("c1", SubscribeLine)
  \/ TotalReq < MaxReq /\ AddPeer("c2", "hA")
  \/ \E slot \in Slots : AddPeerConnected(slot)
  \/ \E slot \in Slots : AddPeerFailed(slot)
  \/ \E S \in {{}, {"s2"}} : PeerSends("pA", HelloFrame("hA", S))
  \/ PeerData("pA")
  \/ PeerClose("pA")

SpecEvents == InitDup /\ [][NextEvents]_vars

\* the frames this step appends to the connection of a control client
NewFrames(c) == SubSeq(out'[c], Len(out[c]) + 1, Len(out'[c]))

\* a socket of an outbound entry closes in this step without the entry being
\* connected: a connection attempt that failed
FailedAttemptCloses(p) ==
  /\ ~remotePeers[p].inbound
  /\ ~remotePeers[p].connected
  /\ remotePeers[p].links = 1
  /\ remotePeers'[p].links = 0

\* C19: the close of a connection attempt that never became open emits no
\* session_removed and no peer_disconnected event: those belong to the
\* open-to-closed transition and were emitted then.
C19_FailedAttemptEmitsNothing ==
  [][\A p \in Peers :
       FailedAttemptCloses(p) =>
         \A c \in Clients : \A i \in DOMAIN NewFrames(c) :
           NewFrames(c)[i].type = "event" =>
             NewFrames(c)[i].command \notin {"session_removed", "peer_disconnected"}]_vars

(* ============ specification of the first frame of a peer socket ======== *)

NextHello ==
  \/ \E p \in Peers : Accept(p)
  \/ \E h \in Hosts : TotalReq < MaxReq /\ AddPeer("c1", h)
  \/ \E slot \in Slots : AddPeerConnected(slot)
  \/ \E slot \in Slots : AddPeerFailed(slot)
  \/ \E p \in Peers : PeerSends(p, HelloFrame(IF remotePeers[p].inbound THEN "hB"
                                              ELSE remotePeers[p].host, {"s2"}))
  \/ \E p \in Peers : PeerSends(p, SessionFrame("session_added", "s9"))
  \/ \E p \in Peers : PeerData(p)
  \/ \E p \in Peers : PeerClose(p)

SpecHello == InitDup /\ [][NextHello]_vars

\* the next frame of an open socket that has not received a hello is not a hello
FirstFrameIsNotHello(p) ==
  /\ remotePeers[p].socket
  /\ ~remotePeers[p].destroyed
  /\ ~remotePeers[p].hello
  /\ peerIn[p] # <<>>
  /\ Head(peerIn[p]).type # "hello"

\* C20: when the first frame of a peer connection is not a hello, the frame
\* is consumed only by dropping the connection, and no session is learnt
\* from it.
C20_HelloComesFirst ==
  [][\A p \in Peers :
       FirstFrameIsNotHello(p) /\ peerIn'[p] # peerIn[p] =>
         /\ ~remotePeers'[p].socket \/ remotePeers'[p].destroyed
         /\ remotePeers'[p].sessions \subseteq remotePeers[p].sessions]_vars

(* ============ add_peer and the persisted configuration ================= *)

\* the add_peer promise in this slot is settled in this step
AddPeerSettles(slot) ==
  /\ calls[slot].kind = "add_peer"
  /\ calls'[slot].kind = "free"

\* the response this step writes for the add_peer of this slot is a success
AddPeerSucceeds(slot) ==
  \E i \in DOMAIN NewFrames(calls[slot].conn) :
    /\ NewFrames(calls[slot].conn)[i].command = "add_peer"
    /\ NewFrames(calls[slot].conn)[i].success

RemovePeer(c, h) ==
  /\ resetAutoShutdown
  /\ connOpen[c]
  /\ nreq' = [nreq EXCEPT ![c] = @ + 1]
  /\ LET n == nreq[c] + 1
         found == MapGet(remotePeers, h)
     IN
     IF found = {}
       THEN /\ out' = Send(out, c, Resp(n, "remove_peer", FALSE, "not found", "-"))
            /\ UNCHANGED <<remotePeers, peerOrder, config>>
       ELSE LET q == CHOOSE x \in found : TRUE IN
            /\ remotePeers' = [remotePeers EXCEPT ![q].removed = TRUE,
                                                  ![q].destroyed = @ \/ remotePeers[q].socket,
                                                  ![q].present = FALSE]
            /\ peerOrder' = SelectSeq(peerOrder, LAMBDA x : x # q)
            /\ out' = Send(PushSessionsRemoved(out, remotePeers[q].sessions), c,
                           Resp(n, "remove_peer", TRUE, h, "-"))
            /\ config' = config \ {h}
  /\ UNCHANGED <<localSessions, subscribers, pendingRelays, calls, rateState, now, buffer,
                 oversized, autoShutdownTimeout, exited, sessionVars, parseVars, procVars, immediates, connOpen, peerOut, peerIn, auditLog, endpointUp, delivered,
                 admitted, rpcSeen, watchVars>>

NextRemove ==
  \/ \E h \in Hosts : nreq["c1"] < MaxReq /\ AddPeer("c1", h)
  \/ \E h \in Hosts : nreq["c2"] < MaxReq /\ RemovePeer("c2", h)
  \/ \E slot \in Slots : AddPeerConnected(slot)
  \/ \E slot \in Slots : AddPeerFailed(slot)
  \/ \E p \in Peers : PeerSends(p, HelloFrame(remotePeers[p].host, {"s2"}))
  \/ \E p \in Peers : PeerData(p)
  \/ \E p \in Peers : PeerClose(p)

SpecRemove == InitDup /\ [][NextRemove]_vars

\* C22: once remove_peer has removed an entry and the close of the socket it
\* destroyed has been handled, no socket of that entry is left open or
\* connecting.
C22_RemovedPeerHasNoSocket ==
  \A q \in Peers :
    remotePeers[q].removed /\ ~remotePeers[q].present /\ ~remotePeers[q].destroyed
      => remotePeers[q].links = 0

(* ============ fire-and-forget relays =================================== *)

\* C23: the acknowledgement of a fire-and-forget relay is the only response
\* frame written for its request line.
C23_AckIsTheOnlyResponse ==
  \A c \in Clients : \A i \in DOMAIN out[c] :
    (out[c][i].type = "response" /\ out[c][i].command = "relay"
       /\ out[c][i].success /\ out[c][i].body = "queued")
      => RespFrames(c, out[c][i].line) = {i}

(* ============ the audit log ============================================ *)

\* the responses written so far to relay requests that were not acknowledged
\* as fire-and-forget
RelayAnswers ==
  UNION {{<<c, i>> : i \in {j \in DOMAIN out[c] :
                               /\ out[c][j].type = "response"
                               /\ out[c][j].command = "relay"
                               /\ out[c][j].body # "queued"}} : c \in Clients}

\* C24: every answered relay request that is not fire-and-forget has its line
\* in audit.log: there are at least as many lines as such answers.
C24_EveryAnswerHasAuditLine ==
  Cardinality(RelayAnswers) <= Len(auditLog)

(* ============ auto-shutdown ============================================ *)

\* daemon.js:49-60 the auto-shutdown timer fires: the process exits when the
\* local table is empty and no entry of the peer table is connected, and the
\* timer is armed again otherwise
\* daemon.js:62-111 cleanup, then process.exit: both servers of the process are
\* closed, the port is free again, and whatever is at the paths of daemon.sock
\* and daemon.pid is unlinked
CleanupAndExit(d, code) ==
  /\ procs' = [procs EXCEPT ![d] = [pc |-> "exited", daemonServer |-> FALSE,
                                    tcpServer |-> FALSE, code |-> code]]
  /\ disk' = [sock |-> "none", pid |-> "none"]
  /\ tcpPort' = IF tcpPort = d THEN "none" ELSE tcpPort

AutoShutdownFires ==
  /\ autoShutdownTimer.set
  /\ now >= autoShutdownTimer.at + autoShutdownTimer.delay
  /\ LET noLocal == localSessions = {}
         noPeers == \A q \in Peers : remotePeers[q].present => ~remotePeers[q].connected
     IN IF noLocal /\ noPeers
          THEN /\ exited' = TRUE
               /\ autoShutdownTimer' = NoTimer
               /\ CleanupAndExit("d1", 0)
          ELSE /\ resetAutoShutdown
               /\ UNCHANGED <<exited, procVars>>
  /\ UNCHANGED <<localSessions, peerVars, ctlVars, now, buffer, oversized, config,
                 autoShutdownTimeout, sessionVars, parseVars, immediates, peerOut, endpointUp, watchVars>>

\* values of autoShutdownTimeout in config.json, in seconds
AutoShutdownTimeouts == {-1, 0, 60, 2147484}

InitShutdown ==
  /\ InitCore
  /\ InitParsed
  /\ InitRunning
  /\ autoShutdownTimeout \in AutoShutdownTimeouts
  /\ autoShutdownTimer = ArmedTimer(0)
  /\ exited = FALSE
  /\ localSessions = {"s1"}
  /\ endpointUp = [s \in SessionIds |-> s = "s1"]
  /\ sockFile = [s \in SessionIds |-> s = "s1"]
  /\ lastProbe = [s \in SessionIds |-> IF s = "s1" THEN "ok" ELSE "none"]
  /\ emitted = [s \in SessionIds |->
                  [added |-> IF s = "s1" THEN 1 ELSE 0, removed |-> 0]]
  /\ remotePeers = [p \in Peers |->
                      IF p = "pA" THEN PeerEntry("hA", {"s2"}, FALSE) ELSE AbsentPeer]
  /\ peerOrder = <<"pA">>

StatusLine == Line("status", "-", "-", FALSE, "-")

NextShutdown ==
  \/ \E t \in Instants : ~exited /\ Advance(t)
  \/ ~exited /\ AutoShutdownFires
  \/ ~exited /\ FileRemove("s1")
  \/ ~exited /\ FileCreate("s1", 1)
  \/ ~exited /\ DebounceDone("s1")
  \/ ~exited /\ ProbeDone("s1")
  \/ ~exited /\ PeerClose("pA")
  \/ ~exited /\ TotalReq < MaxReq /\ DaemonData("c1", StatusLine)

SpecShutdown == InitShutdown /\ [][NextShutdown]_vars

\* C25: the daemon exits through auto-shutdown only when the local table is
\* empty, no peer is connected, and the configured idle timeout has passed in
\* full since the timer was last reset by an activity.
C25_ExitOnlyAfterFullIdleTimeout ==
  [][(exited' /\ ~exited) =>
       /\ localSessions = {}
       /\ \A q \in Peers : ~remotePeers[q].connected
       /\ (now - autoShutdownTimer.at) \div 1000 >= autoShutdownTimeout]_vars

(* ============ specification of the event stream ======================== *)

NextSubscribe ==
  \/ \E c \in Clients : nreq[c] = 0 /\ DaemonData(c, SubscribeLine)
  \/ \E c \in Clients : ClientClose(c)
  \/ \E s \in WatchedSessions : FileCreate(s, 1)
  \/ \E s \in WatchedSessions : FileRemove(s)
  \/ \E s \in WatchedSessions : DebounceDone(s)
  \/ \E s \in WatchedSessions : ProbeDone(s)
  \/ PeerClose("pA")

SpecSubscribe == Init /\ [][NextSubscribe]_vars

IsEvent(frame) == frame.type = "event"

\* the event frames this step appends to the connection of c
NewEvents(c) == SelectSeq(NewFrames(c), IsEvent)

\* how many of the frames of a sequence are the event `name` about session s
CountEvents(fs, name, s) ==
  Cardinality({i \in DOMAIN fs : fs[i].command = name /\ fs[i].body = s})

daemonOnly == <<localSessions, peerVars, ctlVars, peerOut, endpointUp, watchVars, now,
                buffer, oversized, config, autoShutdownTimeout, exited,
                autoShutdownTimer, parseVars, procVars, immediates>>

\* what the command handlers and the alias runs of the endpoint leave alone:
\* the daemon, the socket file and the stopping of the server
daemonVars == <<daemonOnly, shutVars>>

\* the ids a client puts in its subscribe command
SubIds == {"a", "b"}

\* sub_<Date.now()>_<random>: the ids the endpoint makes up for a command without id
GeneratedIds == {"sub_1", "sub_2"}

MaxSubs == 2
MaxTurns == 2
MaxEntries == 3

\* part_003:2195-2200 writeResponse / 2202-2208 writeEvent: a closed socket gets nothing
EndpointWrite(ss, k, frame) ==
  IF ss[k].status = "open" THEN [ss EXCEPT ![k].out = Append(@, frame)] ELSE ss

EndpointResp(command, success, error, subscriptionId) ==
  [type |-> "response", command |-> command, success |-> success, error |-> error,
   subscriptionId |-> subscriptionId, turnIndex |-> 0]

TurnEndEvent(subscriptionId, turnIndex) ==
  [type |-> "event", command |-> "turn_end", success |-> TRUE, error |-> "-",
   subscriptionId |-> subscriptionId, turnIndex |-> turnIndex]

\* a client connects to the endpoint's socket
EndpointConnect(k) ==
  /\ sockets[k].status = "none"
  /\ stopRun = "idle"
  /\ sockets' = [sockets EXCEPT ![k].status = "open"]
  /\ UNCHANGED <<daemonVars, state, session, aliasLinks, syncRuns>>

\* the subscription ids that are in the list or in a cleanup listener
UsedIds ==
  {state.turnEndSubscriptions[i].subscriptionId : i \in DOMAIN state.turnEndSubscriptions}
    \cup UNION {{sockets[k].cleanups[i] : i \in DOMAIN sockets[k].cleanups}
                  : k \in EndpointConns}

\* part_003:2429-2447 handleCommand, type subscribe with event turn_end: the
\* subscription is pushed, a cleanup is registered for the close and the error
\* of the socket and the response carries the subscription id; id is the id of
\* the command, "undefined" when it has none
Subscribe(k, id) ==
  /\ sockets[k].status = "open"
  /\ Len(state.turnEndSubscriptions) < MaxSubs
  /\ Len(sockets[k].cleanups) < MaxSubs
  /\ CanSync(2)
  /\ \E subscriptionId \in IF id = "undefined" THEN GeneratedIds \ UsedIds ELSE {id} :
       /\ state' = [state EXCEPT !.turnEndSubscriptions =
                      Append(@, [socket |-> k, subscriptionId |-> subscriptionId])]
       /\ sockets' = EndpointWrite(
                       [sockets EXCEPT ![k].received =
                                         Append(@, [type |-> "subscribe", id |-> id,
                                                    summarize |-> FALSE]),
                                       ![k].cleanups = Append(@, subscriptionId),
                                       ![k].waiting = Append(@, subscriptionId)],
                       k, EndpointResp("subscribe", TRUE, "-", subscriptionId))
  /\ syncRuns' = syncAlias(syncRuns, 2)
  /\ UNCHANGED <<daemonVars, session, aliasLinks>>

\* part_003:2434-2439 cleanup: the first subscription that has the id is spliced out
removeSubscription(subs, subscriptionId) ==
  LET hits == {i \in DOMAIN subs : subs[i].subscriptionId = subscriptionId}
  IN IF hits = {} THEN subs
     ELSE LET idx == CHOOSE i \in hits : \A j \in hits : i <= j
          IN SubSeq(subs, 1, idx - 1) \o SubSeq(subs, idx + 1, Len(subs))

\* the cleanup listeners of a socket, in the order they were registered
RECURSIVE runCleanups(_, _)
runCleanups(subs, ids) ==
  IF ids = <<>> THEN subs
  ELSE runCleanups(removeSubscription(subs, Head(ids)), Tail(ids))

\* a connection of the endpoint closes: its close listeners run
EndpointClose(k) ==
  /\ sockets[k].status = "open"
  /\ sockets' = [sockets EXCEPT ![k].status = "closed", ![k].cleanups = <<>>,
                                ![k].waiting = <<>>]
  /\ state' = [state EXCEPT !.turnEndSubscriptions =
                 runCleanups(@, sockets[k].cleanups)]
  /\ UNCHANGED <<daemonVars, session, aliasLinks, syncRuns>>

\* the agent starts to work on a prompt
TurnStart ==
  /\ session.idle
  /\ session.turnIndex < MaxTurns
  /\ session' = [session EXCEPT !.idle = FALSE]
  /\ UNCHANGED <<daemonVars, state, sockets, aliasLinks, syncRuns>>

\* one event per subscription of the list, in list order
RECURSIVE writeTurnEnd(_, _, _)
writeTurnEnd(ss, subs, turnIndex) ==
  IF subs = <<>> THEN ss
  ELSE writeTurnEnd(EndpointWrite(ss, Head(subs).socket,
                                  TurnEndEvent(Head(subs).subscriptionId, turnIndex)),
                    Tail(subs), turnIndex)

\* part_003:4140-4157 pi.on("turn_end"): with subscriptions, the list is
\* emptied and every subscription of the copy gets one event; the turn has
\* added an entry to the branch
TurnEnd ==
  /\ ~session.idle
  /\ session.turnIndex < MaxTurns
  /\ session' = [session EXCEPT !.turnIndex = @ + 1,
                                !.leaf = IF @ < MaxEntries THEN @ + 1 ELSE @]
  /\ IF state.turnEndSubscriptions = <<>>
       THEN UNCHANGED <<state, sockets, syncRuns>>
       ELSE /\ CanSync(1)
            /\ syncRuns' = syncAlias(syncRuns, 1)
            /\ state' = [state EXCEPT !.turnEndSubscriptions = <<>>]
            /\ sockets' = writeTurnEnd(
                            [k \in EndpointConns |-> [sockets[k] EXCEPT !.waiting = <<>>]],
                            state.turnEndSubscriptions, session.turnIndex)
  /\ UNCHANGED <<daemonVars, aliasLinks>>

\* the agent has nothing more to do
AgentEnd ==
  /\ ~session.idle
  /\ session' = [session EXCEPT !.idle = TRUE]
  /\ UNCHANGED <<daemonVars, state, sockets, aliasLinks, syncRuns>>

(* ============ specification of the turn_end subscription =============== *)

NextTurnEnd ==
  \/ \E k \in EndpointConns : EndpointConnect(k)
  \/ \E k \in EndpointConns, id \in SubIds \cup {"undefined"} : Subscribe(k, id)
  \/ \E k \in EndpointConns : EndpointClose(k)
  \/ TurnStart
  \/ TurnEnd
  \/ AgentEnd

SpecTurnEnd == Init /\ [][NextTurnEnd]_vars

\* the frames this step appends to a connection of the endpoint
NewEndpointFrames(k) ==
  SubSeq(sockets'[k].out, Len(sockets[k].out) + 1, Len(sockets'[k].out))

\* how many frames of a sequence are events that carry the subscription id
EventsWithId(frames, subscriptionId) ==
  Cardinality({n \in DOMAIN frames : /\ frames[n].type = "event"
                                     /\ frames[n].subscriptionId = subscriptionId})

\* how many confirmed subscriptions of a connection carry the subscription id
WaitingWithId(k, subscriptionId) ==
  Cardinality({n \in DOMAIN sockets[k].waiting : sockets[k].waiting[n] = subscriptionId})

\* C27: a turn_end subscription is one-shot: the turn end that follows the
\* confirmed subscribe writes, on the connection that subscribed and is still
\* open, exactly one turn_end event per subscription with its subscription
\* id, and no other step and no later turn end writes such an event unless the
\* connection subscribed again.
C27_TurnEndSubscriptionIsOneShot ==
  [][\A k \in EndpointConns : \A i \in SubIds \cup GeneratedIds :
       sockets[k].status = "open" =>
         EventsWithId(NewEndpointFrames(k), i)
           = IF session'.turnIndex > session.turnIndex
               THEN WaitingWithId(k, i)
               ELSE 0]_vars

(* ============ specification of the clear command ======================= *)

\* commands one connection of the endpoint sends
MaxCommands == 2

\* part_003:2510-2533 handleCommand, type clear: refused while the session is
\* busy or has no entry, a success without a change when the leaf is the first
\* entry, else the branch is rewound to the first entry; the summarize field
\* of the command is not read. rewindTo is reached through a type assertion
\* and may throw.
Clear(k, summarize) ==
  /\ sockets[k].status = "open"
  /\ Len(sockets[k].received) < MaxCommands
  /\ CanSync(2)
  /\ syncRuns' = syncAlias(syncRuns, 2)
  /\ LET got == [sockets EXCEPT ![k].received =
                   Append(@, [type |-> "clear", id |-> "undefined",
                              summarize |-> summarize])]
     IN IF ~session.idle
          THEN /\ sockets' = EndpointWrite(got, k,
                               EndpointResp("clear", FALSE, "Session is busy", "-"))
               /\ UNCHANGED session
        ELSE IF session.leaf = 0
          THEN /\ sockets' = EndpointWrite(got, k,
                               EndpointResp("clear", FALSE, "No entries in session", "-"))
               /\ UNCHANGED session
        ELSE IF session.leaf = 1
          THEN /\ sockets' = EndpointWrite(got, k, EndpointResp("clear", TRUE, "-", "-"))
               /\ UNCHANGED session
        ELSE \/ /\ session' = [session EXCEPT !.leaf = 1]
                /\ sockets' = EndpointWrite(got, k, EndpointResp("clear", TRUE, "-", "-"))
             \/ /\ sockets' = EndpointWrite(got, k,
                                EndpointResp("clear", FALSE, "Clear failed", "-"))
                /\ UNCHANGED session
  /\ UNCHANGED <<daemonVars, state, aliasLinks>>

NextClear ==
  \/ \E k \in EndpointConns : EndpointConnect(k)
  \/ \E k \in EndpointConns, summarize \in BOOLEAN : Clear(k, summarize)
  \/ \E k \in EndpointConns : EndpointClose(k)
  \/ TurnStart
  \/ TurnEnd
  \/ AgentEnd

SpecClear == Init /\ [][NextClear]_vars

\* the command this step reads from connection k, if it reads one
ReadsClear(k, summarize) ==
  /\ Len(sockets'[k].received) = Len(sockets[k].received) + 1
  /\ sockets'[k].received[Len(sockets'[k].received)].type = "clear"
  /\ sockets'[k].received[Len(sockets'[k].received)].summarize = summarize

\* C28: a clear with summarize=true leaves the branch as it is and is
\* answered with a failure; the leaf moves back to the first entry only in a
\* step that reads a clear without summarize while the session is idle.
C28_SummarizeIsRejected ==
  [][/\ \A k \in EndpointConns :
          ReadsClear(k, TRUE) =>
            /\ session'.leaf = session.leaf
            /\ NewEndpointFrames(k) # <<>>
            /\ ~NewEndpointFrames(k)[1].success
     /\ session'.leaf < session.leaf =>
          /\ session.idle
          /\ \E k \in EndpointConns : ReadsClear(k, FALSE)]_vars

(* ============ parsePeerAddress (shared.js:46-56) ======================= *)

DEFAULT_PORT == 7433

\* the longest peer string of the check, in characters
MaxLen == 3

\* the characters the peer strings of the check are made of
Alphabet == {"h", ":", "0", "7", "-"}

PeerStrings == UNION {[1..n -> Alphabet] : n \in 0..MaxLen}

Digits == <<"0", "1", "2", "3", "4", "5", "6", "7", "8", "9">>

IsDigit(ch) == \E d \in DOMAIN Digits : Digits[d] = ch

DigitValue(ch) == (CHOOSE d \in DOMAIN Digits : Digits[d] = ch) - 1

\* String.prototype.lastIndexOf, counted from 0; -1 when the character is absent
lastIndexOf(str, ch) ==
  LET hits == {i \in DOMAIN str : str[i] = ch}
  IN IF hits = {} THEN -1 ELSE (CHOOSE i \in hits : \A j \in hits : j <= i) - 1

\* String.prototype.slice(from, to), indices counted from 0
slice(str, from, to) == SubSeq(str, from + 1, to)

\* the value of the longest run of digits a string starts with
RECURSIVE DigitRun(_, _)
DigitRun(str, acc) ==
  IF str = <<>> \/ ~IsDigit(Head(str)) THEN acc
  ELSE DigitRun(Tail(str), 10 * acc + DigitValue(Head(str)))

\* parseInt(str, 10): an optional sign, then the digits up to the first
\* character that is not one; NaN when there is no digit
parseInt(str) ==
  LET neg == str # <<>> /\ Head(str) = "-"
      body == IF neg THEN Tail(str) ELSE str
  IN IF body = <<>> \/ ~IsDigit(Head(body)) THEN [nan |-> TRUE, value |-> 0]
     ELSE [nan |-> FALSE,
           value |-> IF neg THEN 0 - DigitRun(body, 0) ELSE DigitRun(body, 0)]

\* String(n) of an integer: its decimal digits, without leading zeros
RECURSIVE String(_)
String(n) ==
  IF n < 0 THEN <<"-">> \o String(0 - n)
  ELSE IF n < 10 THEN <<Digits[n + 1]>>
  ELSE String(n \div 10) \o <<Digits[(n % 10) + 1]>>

\* shared.js:46-56 parsePeerAddress (the same text in part_002:61-71)
parsePeerAddress(peer) ==
  LET lastColon == lastIndexOf(peer, ":")
      potentialPort == slice(peer, lastColon + 1, Len(peer))
      portNum == parseInt(potentialPort)
  IN IF lastColon # -1 /\ ~portNum.nan /\ String(portNum.value) = potentialPort
       THEN [done |-> TRUE, host |-> slice(peer, 0, lastColon), port |-> portNum.value]
       ELSE [done |-> TRUE, host |-> peer, port |-> DEFAULT_PORT]

\* a configuration whose peers list holds one of the strings
InitParse ==
  /\ InitCore
  /\ autoShutdownTimeout = DEFAULT_AUTO_SHUTDOWN_TIMEOUT
  /\ autoShutdownTimer = ArmedTimer(0)
  /\ exited = FALSE
  /\ InitTables
  /\ InitRunning
  /\ peerStr \in PeerStrings
  /\ parsed = NoParse
  /\ stored = NoStored

\* daemon.js:1036-1037 main parses the peer string
ParsePeerAddress ==
  /\ ~parsed.done
  /\ parsed' = parsePeerAddress(peerStr)
  /\ UNCHANGED <<localSessions, peerVars, ctlVars, peerOut, endpointUp, watchVars, now,
                 buffer, oversized, config, autoShutdownTimeout, exited,
                 autoShutdownTimer, sessionVars, procVars, immediates, peerStr, stored>>

NextParse == ParsePeerAddress

SpecParse == InitParse /\ [][NextParse]_vars

\* the text after the last colon of the peer string; the whole string when it
\* has no colon
AfterLastColon == slice(peerStr, lastIndexOf(peerStr, ":") + 1, Len(peerStr))

\* the text is made of digits and is the number of a port other than 0
IsPortText(txt) ==
  /\ txt # <<>>
  /\ \A i \in DOMAIN txt : IsDigit(txt[i])
  /\ DigitRun(txt, 0) >= 1

\* C29: for a peer string without a colon, or whose text after the last colon
\* is not a valid port (not made of digits, or 0), parsePeerAddress returns
\* the whole string as host with the default port 7433; it returns a host cut
\* at the colon only when that text is made of digits, and then the port is
\* the number the digits spell.
C29_BareHostUnlessPortDigits ==
  parsed.done =>
    /\ (lastIndexOf(peerStr, ":") = -1 \/ ~IsPortText(AfterLastColon))
         => (parsed.host = peerStr /\ parsed.port = DEFAULT_PORT)
    /\ parsed.host # peerStr
         => /\ IsPortText(AfterLastColon)
            /\ parsed.port = DigitRun(AfterLastColon, 0)
            /\ parsed.host = slice(peerStr, 0, lastIndexOf(peerStr, ":"))

(* ============ the alias links (part_003:2139-2192) ===================== *)

\* times the session is given another name
MaxRenames == 2

\* the agent gives the session another name
Rename(name) ==
  /\ name # session.name
  /\ session.renames < MaxRenames
  /\ session' = [session EXCEPT !.name = name, !.renames = @ + 1]
  /\ UNCHANGED <<daemonVars, state, sockets, aliasLinks, syncRuns>>

\* part_003:4089-4094 the 1 s interval of refreshServer calls syncAlias
AliasTick ==
  /\ stopRun = "idle"
  /\ CanSync(1)
  /\ getSessionAlias(session.name) # state.alias
  /\ syncRuns' = syncAlias(syncRuns, 1)
  /\ UNCHANGED <<daemonVars, state, sockets, session, aliasLinks>>

\* part_003:2142 removeAliasesForSocket: readdir returns; of the entries it
\* lists, the links that point to the socket are the ones the loop can unlink
SyncReaddir(r) ==
  /\ syncRuns[r].pc = "readdir"
  /\ syncRuns' = [syncRuns EXCEPT ![r].pc = "remove", ![r].entries = aliasLinks]
  /\ UNCHANGED <<daemonVars, state, sockets, session, aliasLinks>>

\* part_003:2143-2156 one turn of the loop: readlink, and unlink when the link
\* still points to the socket
SyncRemoveEntry(r) ==
  /\ syncRuns[r].pc = "remove"
  /\ \E e \in syncRuns[r].entries :
       /\ aliasLinks' = aliasLinks \ {e}
       /\ syncRuns' = [syncRuns EXCEPT ![r].entries = @ \ {e}]
  /\ UNCHANGED <<daemonVars, state, sockets, session>>

\* part_003:2183-2184, 2189-2190 removeAliasesForSocket has returned: without
\* an alias state.alias becomes null and the call is over, with one
\* createAliasSymlink starts with the unlink of the alias path
SyncRemoved(r) ==
  /\ syncRuns[r].pc = "remove"
  /\ syncRuns[r].entries = {}
  /\ IF syncRuns[r].alias = NoAlias
       THEN /\ state' = [state EXCEPT !.alias = NoAlias]
            /\ syncRuns' = [syncRuns EXCEPT ![r] = IdleRun]
       ELSE /\ syncRuns' = [syncRuns EXCEPT ![r].pc = "unlink"]
            /\ UNCHANGED state
  /\ UNCHANGED <<daemonVars, sockets, session, aliasLinks>>

\* part_003:2166-2170 createAliasSymlink: unlink of the alias path, ENOENT ignored
SyncUnlink(r) ==
  /\ syncRuns[r].pc = "unlink"
  /\ aliasLinks' = aliasLinks \ {syncRuns[r].alias}
  /\ syncRuns' = [syncRuns EXCEPT ![r].pc = "symlink"]
  /\ UNCHANGED <<daemonVars, state, sockets, session>>

\* part_003:2171-2175 createAliasSymlink: symlink to the socket, EEXIST ignored
SyncSymlink(r) ==
  /\ syncRuns[r].pc = "symlink"
  /\ aliasLinks' = aliasLinks \cup {syncRuns[r].alias}
  /\ syncRuns' = [syncRuns EXCEPT ![r].pc = "assign"]
  /\ UNCHANGED <<daemonVars, state, sockets, session>>

\* part_003:2185 state.alias = alias
SyncAssign(r) ==
  /\ syncRuns[r].pc = "assign"
  /\ state' = [state EXCEPT !.alias = syncRuns[r].alias]
  /\ syncRuns' = [syncRuns EXCEPT ![r] = IdleRun]
  /\ UNCHANGED <<daemonVars, sockets, session, aliasLinks>>

(* ============ specification of the alias links ========================= *)

NextAlias ==
  \/ \E name \in SessionNames : Rename(name)
  \/ AliasTick
  \/ EndpointConnect("k1")
  \/ Len(sockets["k1"].received) = 0 /\ Subscribe("k1", "a")
  \/ \E r \in SyncSlots : SyncReaddir(r)
  \/ \E r \in SyncSlots : SyncRemoveEntry(r)
  \/ \E r \in SyncSlots : SyncRemoved(r)
  \/ \E r \in SyncSlots : SyncUnlink(r)
  \/ \E r \in SyncSlots : SyncSymlink(r)
  \/ \E r \in SyncSlots : SyncAssign(r)

SpecAlias == Init /\ [][NextAlias]_vars

\* no syncAlias call is between two awaits, and one that starts now returns
\* at once because state.alias is the alias of the name
SyncQuiet ==
  /\ \A r \in SyncSlots : syncRuns[r].pc = "idle"
  /\ state.alias = getSessionAlias(session.name)

\* C30: when every syncAlias call has completed and further calls have
\* nothing to do for the current name, the links that point to the endpoint
\* are exactly the one of the name's alias, or none when the name gives no
\* alias; no link of an earlier name is left.
C30_AliasLinksConverge ==
  SyncQuiet =>
    aliasLinks = IF getSessionAlias(session.name) = NoAlias
                   THEN {} ELSE {getSessionAlias(session.name)}

(* ============ specification of the kill request ======================== *)

\* part_003:4078 the request the kill-daemon command of the extension sends,
\* and the request daemon.js:840 has a case for
KillLines == {Line("kill", "-", "-", FALSE, "-"), Line("/kill-daemon", "-", "-", FALSE, "-"),
              Line("/start-daemon", "-", "-", FALSE, "-")}

\* daemon.js:843-846 the setImmediate callback: cleanup, then process.exit(0);
\* every connection of the process ends with it
KillImmediate ==
  /\ "kill" \in immediates
  /\ immediates' = {}
  /\ exited' = TRUE
  /\ CleanupAndExit("d1", 0)
  /\ autoShutdownTimer' = NoTimer
  /\ subscribers' = {}
  /\ connOpen' = [c \in Clients |-> FALSE]
  /\ UNCHANGED <<localSessions, peerVars, pendingRelays, calls, rateState, nreq, out,
                 auditLog, delivered, admitted, rpcSeen, peerOut, endpointUp, watchVars,
                 now, buffer, oversized, config, autoShutdownTimeout, sessionVars,
                 parseVars>>

NextKill ==
  \/ \E c \in Clients, ln \in KillLines \cup {StatusLine, SubscribeLine, ListLine} :
       ~exited /\ TotalReq < MaxReq /\ DaemonData(c, ln)
  \/ ~exited /\ KillImmediate
  \/ \E c \in Clients : ~exited /\ ClientClose(c)
  \/ ~exited /\ PeerClose("pA")

SpecKill == Init /\ [][NextKill]_vars

\* C31: the answer to a kill request is a success, and the step that writes
\* it has queued the shutdown of the daemon.
C31_KillIsAcknowledged ==
  [][\A c \in Clients : \A n \in DOMAIN NewFrames(c) :
       NewFrames(c)[n].command \in {"kill", "/kill-daemon"} =>
         /\ NewFrames(c)[n].success
         /\ "kill" \in immediates']_vars

(* ============ daemon.ts next to daemon.js ============================== *)

\* daemon.ts:758-782 the list of list_sessions: the sessions of every peer of
\* the map, connected or not
tsListSessions ==
  {[sessionId |-> s, host |-> "self", isRemote |-> FALSE] : s \in localSessions}
  \cup UNION {{[sessionId |-> s, host |-> remotePeers[p].host, isRemote |-> TRUE] :
                 s \in remotePeers[p].sessions} :
               p \in {q \in Peers : remotePeers[q].present}}

\* daemon.ts:642-894 handleDaemonCommand: the response daemon.ts writes to the
\* n-th line of a connection for the requests that carry nothing but a type
tsHandleDaemonCommand(n, type) ==
  CASE type = "status" -> Resp(n, "status", TRUE, "status", "-")
    [] type = "list_sessions" -> Resp(n, "list_sessions", TRUE, tsListSessions, "-")
    [] type = "subscribe" -> Resp(n, "subscribe", TRUE, "subscribed", "-")
    [] type = "kill" -> Resp(n, "kill", TRUE, "Shutting down", "-")
    [] OTHER -> Resp(n, type, FALSE, "Unknown command", "-")

\* the requests above
PlainTypes == {"status", "list_sessions", "subscribe", "kill", "/start-daemon", "/kill-daemon"}

\* C32: daemon.js and daemon.ts answer alike: the response daemon.js writes
\* to a request that carries only a type is the response daemon.ts writes to
\* the same request in the same state.
C32_SameResponseAsSource ==
  [][\A c \in Clients : \A n \in DOMAIN NewFrames(c) :
       (NewFrames(c)[n].type = "response" /\ NewFrames(c)[n].command \in PlainTypes)
         => NewFrames(c)[n] = tsHandleDaemonCommand(NewFrames(c)[n].line,
                                                    NewFrames(c)[n].command)]_vars

(* ============ start of a daemon process (daemon.js:1021-1066) ========== *)

\* what a step of the start of a process leaves alone: the tables, timers and
\* connections inside the daemon, and the session endpoint
innerVars == <<localSessions, peerVars, ctlVars, peerOut, endpointUp, watchVars, now,
               buffer, oversized, config, autoShutdownTimeout, exited, autoShutdownTimer,
               sessionVars, parseVars, immediates>>

\* part_003:2710-2727 spawnDaemon: a detached daemon process is started
Spawn(d) ==
  /\ procs[d].pc = "none"
  /\ procs' = [procs EXCEPT ![d].pc = "pid"]
  /\ UNCHANGED <<innerVars, disk, tcpPort>>

\* daemon.js:1028-1030 main: the control directory is made and daemon.pid is
\* written over whatever is there; when that throws, main rejects and the
\* catch at 1062-1065 exits with code 1
MainWritePid(d, ok) ==
  /\ procs[d].pc = "pid"
  /\ IF ok
       THEN /\ disk' = [disk EXCEPT !.pid = d]
            /\ procs' = [procs EXCEPT ![d].pc = "ctl"]
       ELSE /\ procs' = [procs EXCEPT ![d].pc = "exited", ![d].code = 1]
            /\ UNCHANGED disk
  /\ UNCHANGED <<innerVars, tcpPort>>

\* daemon.js:854-918 startDaemonServer: whatever is at the path of daemon.sock
\* is unlinked, then the server listens there; a listen error is logged by
\* the error handler (910-912) and nothing else happens
StartDaemonServer(d, ok) ==
  /\ procs[d].pc = "ctl"
  /\ disk' = [disk EXCEPT !.sock = IF ok THEN d ELSE "none"]
  /\ procs' = [procs EXCEPT ![d].pc = "tcp", ![d].daemonServer = ok]
  /\ UNCHANGED <<innerVars, tcpPort>>

\* daemon.js:919-1020 startTcpServer and the rest of main: the server listens
\* on config.port; when the port is taken the error handler (1014-1016) logs
\* and main goes on to the end
StartTcpServer(d) ==
  /\ procs[d].pc = "tcp"
  /\ tcpPort' = IF tcpPort = "none" THEN d ELSE tcpPort
  /\ procs' = [procs EXCEPT ![d].pc = "running", ![d].tcpServer = (tcpPort = "none")]
  /\ UNCHANGED <<innerVars, disk>>

\* daemon.js:1042-1051 SIGTERM or SIGINT: cleanup, then process.exit(0)
Sigterm(d) ==
  /\ procs[d].pc = "running"
  /\ CleanupAndExit(d, 0)
  /\ exited' = (exited \/ d = "d1")
  /\ UNCHANGED <<localSessions, peerVars, ctlVars, peerOut, endpointUp, watchVars, now,
                 buffer, oversized, config, autoShutdownTimeout, autoShutdownTimer,
                 sessionVars, parseVars, immediates>>

\* no daemon process has been started yet
InitStart ==
  /\ InitCore
  /\ InitParsed
  /\ InitTables
  /\ autoShutdownTimeout = DEFAULT_AUTO_SHUTDOWN_TIMEOUT
  /\ autoShutdownTimer = ArmedTimer(0)
  /\ exited = FALSE
  /\ procs = [d \in Daemons |-> NoProc]
  /\ disk = [sock |-> "none", pid |-> "none"]
  /\ tcpPort = "none"
  /\ immediates = {}

NextStart ==
  \/ \E d \in Daemons : Spawn(d)
  \/ \E d \in Daemons, ok \in BOOLEAN : MainWritePid(d, ok)
  \/ \E d \in Daemons, ok \in BOOLEAN : StartDaemonServer(d, ok)
  \/ \E d \in Daemons : StartTcpServer(d)
  \/ \E d \in Daemons : Sigterm(d)
  \/ \E c \in Clients, ln \in {StatusLine, SubscribeLine} :
       /\ procs["d1"].pc = "running" /\ procs["d1"].daemonServer
       /\ TotalReq < MaxReq
       /\ DaemonData(c, ln)

SpecStart == InitStart /\ [][NextStart]_vars

\* C33: a daemon process that has finished its startup listens on both its
\* control socket and its TCP port, and one that ended its startup by
\* exiting has a non-zero exit code unless it was told to stop.
C33_RunsWithBothListeners ==
  \A d \in Daemons :
    procs[d].pc = "running" => (procs[d].daemonServer /\ procs[d].tcpServer)

\* C39: a step that is not a step of a running daemon leaves the daemon.sock
\* and the daemon.pid that this daemon made in place.
C39_RunningDaemonKeepsItsFiles ==
  [][\A d \in Daemons :
       (procs[d].pc = "running" /\ procs'[d] = procs[d]) =>
         /\ disk.sock = d => disk'.sock = d
         /\ disk.pid = d => disk'.pid = d]_vars

(* ============ specification of stale local sessions ==================== *)

NextReap ==
  \/ \E s \in WatchedSessions, k \in 1..MaxNotify : FileCreate(s, k)
  \/ \E s \in WatchedSessions : FileRemove(s)
  \/ \E s \in WatchedSessions : DebounceDone(s)
  \/ \E s \in WatchedSessions : ProbeDone(s)
  \/ \E s \in WatchedSessions : EndpointCrash(s)

\* the 50 ms wait of a watcher callback ends and a probe gets its answer or
\* its 300 ms timeout; what happens in the directory is up to the environment
FairReap ==
  \A s \in WatchedSessions : WF_vars(DebounceDone(s)) /\ WF_vars(ProbeDone(s))

SpecReap == Init /\ [][NextReap]_vars /\ FairReap

\* C34: a session whose endpoint is not reachable does not stay in the
\* local-session table forever.
C34_StaleSessionIsReaped ==
  \A s \in WatchedSessions :
    (s \in localSessions /\ ~endpointUp[s]) ~> (s \notin localSessions \/ endpointUp[s])

(* ============ shutdown of the session endpoint (part_003) ============== *)

\* part_003:4118-4138 session_shutdown, and stopControlServer (2638-2654) up
\* to its first await: the alias timer is cleared, the socket path and the
\* subscriptions are dropped and server.close() is called, which stops the
\* listening and unlinks the socket file at once
SessionShutdown ==
  /\ stopRun = "idle"
  /\ stopRun' = "closing"
  /\ socketFile' = FALSE
  /\ state' = [state EXCEPT !.turnEndSubscriptions = <<>>]
  /\ UNCHANGED <<daemonOnly, sockets, session, aliasLinks, syncRuns>>

\* part_003:2649 the callback of server.close: it is called when the last
\* connection of the server has ended
ServerClosed ==
  /\ stopRun = "closing"
  /\ \A k \in EndpointConns : sockets[k].status # "open"
  /\ stopRun' = "aliases"
  /\ UNCHANGED <<daemonOnly, state, sockets, session, aliasLinks, syncRuns, socketFile>>

\* part_003:2651 removeAliasesForSocket: the links that point to the socket are unlinked
StopRemoveAliases ==
  /\ stopRun = "aliases"
  /\ aliasLinks' = {}
  /\ stopRun' = "socket"
  /\ UNCHANGED <<daemonOnly, state, sockets, session, syncRuns, socketFile>>

\* part_003:2652-2653 removeSocket, then state.alias = null
StopRemoveSocket ==
  /\ stopRun = "socket"
  /\ socketFile' = FALSE
  /\ state' = [state EXCEPT !.alias = NoAlias]
  /\ stopRun' = "done"
  /\ UNCHANGED <<daemonOnly, sockets, session, aliasLinks, syncRuns>>

NextStop ==
  \/ Rename("n1")
  \/ AliasTick
  \/ \E k \in EndpointConns : EndpointConnect(k)
  \/ \E k \in EndpointConns : EndpointClose(k)
  \/ \E k \in EndpointConns : Len(sockets[k].received) = 0 /\ Subscribe(k, "undefined")
  \/ \E r \in SyncSlots : SyncReaddir(r)
  \/ \E r \in SyncSlots : SyncRemoveEntry(r)
  \/ \E r \in SyncSlots : SyncRemoved(r)
  \/ \E r \in SyncSlots : SyncUnlink(r)
  \/ \E r \in SyncSlots : SyncSymlink(r)
  \/ \E r \in SyncSlots : SyncAssign(r)
  \/ SessionShutdown
  \/ ServerClosed
  \/ StopRemoveAliases
  \/ StopRemoveSocket

\* the steps of the endpoint itself are taken when they can be; when a client
\* connects or closes is up to the client
FairStop ==
  /\ WF_vars(ServerClosed) /\ WF_vars(StopRemoveAliases) /\ WF_vars(StopRemoveSocket)
  /\ \A r \in SyncSlots :
       /\ WF_vars(SyncReaddir(r)) /\ WF_vars(SyncRemoveEntry(r)) /\ WF_vars(SyncRemoved(r))
       /\ WF_vars(SyncUnlink(r)) /\ WF_vars(SyncSymlink(r)) /\ WF_vars(SyncAssign(r))

SpecStop == Init /\ [][NextStop]_vars /\ FairStop

\* C35: after the session shutdown the endpoint ends up with no socket file
\* and no alias link that points to it.
C35_ShutdownRemovesFiles ==
  (stopRun # "idle") ~> (~socketFile /\ aliasLinks = {})

(* ============ specification of the federation views ==================== *)

\* daemon.js:268-272, 287-288, 297-298 the session map the daemon at the other
\* end holds after it has handled these frames: a hello replaces the map,
\* session_added and session_removed change one entry
RECURSIVE peerView(_, _)
peerView(frames, held) ==
  IF frames = <<>> THEN held
  ELSE LET f == Head(frames) IN
       peerView(Tail(frames),
                CASE f.type = "hello" -> f.sessions
                  [] f.type = "session_added" -> held \cup {f.target}
                  [] f.type = "session_removed" -> held \ {f.target}
                  [] OTHER -> held)

FedSessions == {"s9"}

NextFed ==
  \/ TotalReq < MaxReq /\ AddPeer("c1", "hB")
  \/ \E slot \in Slots : AddPeerConnected(slot)
  \/ \E slot \in Slots : AddPeerFailed(slot)
  \/ \E p \in Peers : ~remotePeers[p].inbound /\ remotePeers[p].host = "hB"
                      /\ PeerSends(p, HelloFrame("hB", {}))
  \/ \E p \in Peers : PeerData(p)
  \/ \E p \in Peers : remotePeers[p].host = "hB" /\ PeerClose(p)
  \/ \E s \in FedSessions : FileCreate(s, 1)
  \/ \E s \in FedSessions : FileRemove(s)
  \/ \E s \in FedSessions : DebounceDone(s)
  \/ \E s \in FedSessions : ProbeDone(s)

SpecFed == InitDup /\ [][NextFed]_vars

\* the connection dialled to hB is open on both sides and nothing is on its way
FedQuiet(q) ==
  /\ remotePeers[q].present /\ ~remotePeers[q].inbound /\ remotePeers[q].host = "hB"
  /\ remotePeers[q].connected /\ remotePeers[q].socket /\ ~remotePeers[q].destroyed
  /\ remotePeers[q].links = 1
  /\ peerIn[q] = <<>>
  /\ \A s \in SessionIds : debounce[s] = 0 /\ probing[s] = 0

\* C36: once the connection to a peer is open on both sides and no session
\* change is on its way, the session map the peer holds for this daemon is
\* this daemon's local-session table.
C36_FederationViewsConverge ==
  \A q \in Peers : FedQuiet(q) => peerView(peerOut[q], {}) = localSessions

(* ============ the peer string add_peer saves (daemon.js:594-627) ======= *)

\* the ports config.port takes in the check
ListenPorts == {DEFAULT_PORT, 7, 70}

\* the request names no port
NoPort == -1

\* the port field of the add_peer requests of the check
RequestPorts == {NoPort, 7, DEFAULT_PORT}

\* a daemon whose configuration gives the listen port; nothing is stored yet
InitStore ==
  /\ InitCore
  /\ autoShutdownTimeout = DEFAULT_AUTO_SHUTDOWN_TIMEOUT
  /\ autoShutdownTimer = ArmedTimer(0)
  /\ exited = FALSE
  /\ InitTables
  /\ InitRunning
  /\ peerStr = <<>>
  /\ parsed = NoParse
  /\ stored \in {[NoStored EXCEPT !.listen = l] : l \in ListenPorts}

\* daemon.js:595-598, 624-627 add_peer whose connection succeeded: the host
\* and port it dialled, and the string it pushes to config.peers
AddPeerStore(host, reqPort) ==
  /\ ~stored.done
  /\ LET resolved == parsePeerAddress(host)
         finalHost == resolved.host
         finalPort == IF reqPort = NoPort THEN resolved.port ELSE reqPort
     IN /\ stored' = [stored EXCEPT !.done = TRUE, !.host = finalHost, !.port = finalPort]
        /\ peerStr' = IF finalPort = stored.listen THEN finalHost
                      ELSE finalHost \o <<":">> \o String(finalPort)
  /\ UNCHANGED <<localSessions, peerVars, ctlVars, peerOut, endpointUp, watchVars, now,
                 buffer, oversized, config, autoShutdownTimeout, exited,
                 autoShutdownTimer, sessionVars, procVars, immediates, parsed>>

NextStore ==
  \/ \E host \in PeerStrings, reqPort \in RequestPorts : AddPeerStore(host, reqPort)
  \/ stored.done /\ ParsePeerAddress

SpecStore == InitStore /\ [][NextStore]_vars

\* C37: the string add_peer wrote to config.peers parses back to the host and
\* the port the daemon connected to.
C37_PeerStringRoundTrips ==
  (stored.done /\ parsed.done) => (parsed.host = stored.host /\ parsed.port = stored.port)

(* ============ subscriptions of a closed connection ===================== *)

\* the subscriptions of a list that were registered on other connections than k
OfOtherSockets(subs, k) == SelectSeq(subs, LAMBDA s : s.socket # k)

\* C38: when a connection of the endpoint closes, the subscriptions that
\* remain are those registered on the other connections, all of them and in
\* the same order, and none of the closed connection.
C38_CloseRemovesOwnSubscriptions ==
  [][\A k \in EndpointConns :
       sockets[k].status = "open" /\ sockets'[k].status = "closed" =>
         state'.turnEndSubscriptions = OfOtherSockets(state.turnEndSubscriptions, k)]_vars

(* ============ events of a peer entry that connects again =============== *)

\* how many frames of a sequence are events of this name
EventsNamed(frames, name) ==
  Cardinality({i \in DOMAIN frames : frames[i].type = "event" /\ frames[i].command = name})

\* the entry goes from not connected to connected in this step
BecomesConnected(p) ==
  /\ remotePeers[p].present /\ remotePeers'[p].present
  /\ ~remotePeers[p].connected /\ remotePeers'[p].connected

\* the connection of a connected entry closes in this step
BecomesDisconnected(p) ==
  /\ remotePeers[p].present
  /\ remotePeers[p].connected /\ ~remotePeers'[p].connected
  /\ remotePeers'[p].links < remotePeers[p].links

\* C40: every step in which a peer entry becomes connected writes exactly one
\* peer_connected event to each subscriber, and every step in which the
\* connection of a connected entry closes writes exactly one
\* peer_disconnected event.
C40_OneEventPerTransition ==
  [][\A p \in Peers : \A c \in subscribers :
       /\ BecomesConnected(p) => EventsNamed(NewFrames(c), "peer_connected") = 1
       /\ BecomesDisconnected(p) => EventsNamed(NewFrames(c), "peer_disconnected") = 1]_vars

====
